---- MODULE Spec2Model ----
(***************************************************************************)
(* Championship ledger of wrestling/update.py: ingestion of the event log *)
(* (record_match / check_championship_change), the chronological sort of  *)
(* main, the replay reprocess_championships_chronologically, the vacancy   *)
(* pass process_vacancies and the duration pass                            *)
(* calculate_championship_days.  On top of the ledger, the rankings of    *)
(* wrestling/p4p.py: build_caches, opponent_rating, compute_score,         *)
(* rank_for_year with the yearly loop of generate_p4p_html, and the Hall   *)
(* of Fame of hof_eligible / compute_hof_classes.                          *)
(*                                                                         *)
(* Strings the code inspects character by character (method, notes,       *)
(* weight class) are TLA+ strings whose text is given by chars; lower and  *)
(* Contains are Python's str.lower and the `in` substring test.  Dates are *)
(* records naming the textual format of the date string; parse_date turns  *)
(* them into proleptic Gregorian ordinals (datetime.toordinal).            *)
(***************************************************************************)
EXTENDS Integers, Sequences, FiniteSets, TLC

VARIABLES html, events, wrestlers, championships, vacancies, pc, pos, run, firstRun

\* p4p.py: the Open table of the wiki page, db.ppv_wrestlers, the caches, the
\* value returned by the last call, and the state of the yearly and induction loops
VARIABLES wiki, ppv_wrestlers, cache, ret, year, men_woty, women_woty,
          yearly_men, yearly_women, hof_classes, already_inducted

p4pVars == <<wiki, ppv_wrestlers, cache, ret, year, men_woty, women_woty,
             yearly_men, yearly_women, hof_classes, already_inducted>>

vars == <<html, events, wrestlers, championships, vacancies, pc, pos, run, firstRun, p4pVars>>

(***************************************************************************)
(* Bounds of the explored input.                                           *)
(***************************************************************************)
MaxEvents == 3
MaxVacancies == 1

(***************************************************************************)
(* Python values.                                                          *)
(***************************************************************************)
None == -1

abs(n) == IF n < 0 THEN -n ELSE n

orgs == <<"wwf", "wwo", "iwb", "ring">>
weights == <<"heavyweight", "bridgerweight", "middleweight", "welterweight", "lightweight", "featherweight">>
title_keywords == <<"title", "titles", "championship", "championships">>

Range(s) == {s[i] : i \in 1..Len(s)}

(***************************************************************************)
(* Text of the strings that occur in the model.                            *)
(***************************************************************************)
chars(s) ==
  CASE s = "" -> <<>>
    [] s = "wwf" -> <<"w","w","f">>
    [] s = "wwo" -> <<"w","w","o">>
    [] s = "iwb" -> <<"i","w","b">>
    [] s = "ring" -> <<"r","i","n","g">>
    [] s = "title" -> <<"t","i","t","l","e">>
    [] s = "titles" -> <<"t","i","t","l","e","s">>
    [] s = "championship" -> <<"c","h","a","m","p","i","o","n","s","h","i","p">>
    [] s = "championships" -> <<"c","h","a","m","p","i","o","n","s","h","i","p","s">>
    [] s = "heavyweight" -> <<"h","e","a","v","y","w","e","i","g","h","t">>
    [] s = "bridgerweight" -> <<"b","r","i","d","g","e","r","w","e","i","g","h","t">>
    [] s = "middleweight" -> <<"m","i","d","d","l","e","w","e","i","g","h","t">>
    [] s = "welterweight" -> <<"w","e","l","t","e","r","w","e","i","g","h","t">>
    [] s = "lightweight" -> <<"l","i","g","h","t","w","e","i","g","h","t">>
    [] s = "featherweight" -> <<"f","e","a","t","h","e","r","w","e","i","g","h","t">>
    [] s = "pinfall" -> <<"p","i","n","f","a","l","l">>
    [] s = "submission" -> <<"s","u","b","m","i","s","s","i","o","n">>
    [] s = "dq" -> <<"d","q">>
    [] s = "countout" -> <<"c","o","u","n","t","o","u","t">>
    [] s = "count out" -> <<"c","o","u","n","t"," ","o","u","t">>
    [] s = "disqualification" -> <<"d","i","s","q","u","a","l","i","f","i","c","a","t","i","o","n">>
    [] s = "Pinfall" -> <<"P","i","n","f","a","l","l">>
    [] s = "Submission" -> <<"S","u","b","m","i","s","s","i","o","n">>
    [] s = "Decision" -> <<"D","e","c","i","s","i","o","n">>
    [] s = "Disqualification" -> <<"D","i","s","q","u","a","l","i","f","i","c","a","t","i","o","n">>
    [] s = "Count Out" -> <<"C","o","u","n","t"," ","O","u","t">>
    [] s = "Knockout" -> <<"K","n","o","c","k","o","u","t">>
    [] s = "DQ" -> <<"D","Q">>
    [] s = "Countout" -> <<"C","o","u","n","t","o","u","t">>
    [] s = "Time Limit" -> <<"T","i","m","e"," ","L","i","m","i","t">>
    [] s = "Heavyweight" -> <<"H","e","a","v","y","w","e","i","g","h","t">>
    [] s = "WWF Heavyweight title" ->
         <<"W","W","F"," ","H","e","a","v","y","w","e","i","g","h","t"," ","t","i","t","l","e">>
    [] s = "WWF and WWO Heavyweight titles" ->
         <<"W","W","F"," ","a","n","d"," ","W","W","O"," ","H","e","a","v","y","w","e","i","g","h","t"," ","t","i","t","l","e","s">>
    [] s = "WWF Heavyweight championship" ->
         <<"W","W","F"," ","H","e","a","v","y","w","e","i","g","h","t"," ","c","h","a","m","p","i","o","n","s","h","i","p">>
    [] s = "WWF Openweight title" ->
         <<"W","W","F"," ","O","p","e","n","w","e","i","g","h","t"," ","t","i","t","l","e">>

Upper == <<"A","B","C","D","E","F","G","H","I","J","K","L","M","N","O","P","Q","R","S","T","U","V","W","X","Y","Z">>
Lower == <<"a","b","c","d","e","f","g","h","i","j","k","l","m","n","o","p","q","r","s","t","u","v","w","x","y","z">>

\* str.lower on a sequence of characters
lower(cs) ==
  [i \in 1..Len(cs) |->
     IF \E k \in 1..Len(Upper) : Upper[k] = cs[i]
     THEN Lower[CHOOSE k \in 1..Len(Upper) : Upper[k] = cs[i]]
     ELSE cs[i]]

\* Python's `needle in hay` on sequences of characters
Contains(needle, hay) ==
  \E i \in 0..(Len(hay) - Len(needle)) :
     \A j \in 1..Len(needle) : hay[i + j] = needle[j]

(***************************************************************************)
(* Dates.  A date string is a record: fmt names its textual layout         *)
(* ("B d, Y" = "July 6, 2000", "B Y" = "July 2000", "d B Y" =              *)
(* "6 July 2000", "" = no date), y/m/d the numbers written in it.          *)
(***************************************************************************)
IsLeap(y) == (y % 4 = 0) /\ ((y % 100 # 0) \/ (y % 400 = 0))

DaysInMonth(y, m) ==
  IF m = 2 THEN (IF IsLeap(y) THEN 29 ELSE 28)
  ELSE IF m \in {4, 6, 9, 11} THEN 30 ELSE 31

RECURSIVE DaysBeforeMonth(_, _)
DaysBeforeMonth(y, m) ==
  IF m = 1 THEN 0 ELSE DaysBeforeMonth(y, m - 1) + DaysInMonth(y, m - 1)

\* datetime.toordinal
Ordinal(y, m, d) ==
  LET p == y - 1
  IN  p * 365 + (p \div 4) - (p \div 100) + (p \div 400) + DaysBeforeMonth(y, m) + d

parse_date(date_str) ==
  IF date_str.fmt = "B d, Y" /\ date_str.d \in 1..DaysInMonth(date_str.y, date_str.m)
  THEN Ordinal(date_str.y, date_str.m, date_str.d)
  ELSE IF date_str.fmt = "B Y"
       THEN Ordinal(date_str.y, date_str.m, 1)
       ELSE None

days_between(date1_str, date2_str) ==
  LET d1 == parse_date(date1_str)
      d2 == parse_date(date2_str)
  IN  IF d1 # None /\ d2 # None THEN abs(d2 - d1) ELSE None

\* truth value of a date string (None and "" are falsy)
Truthy(date_str) == date_str.fmt # ""

datetime_min == Ordinal(1, 1, 1)

(***************************************************************************)
(* Classification of a match from its free-text fields.                    *)
(***************************************************************************)
\* is_title_match: the matched organisations, in the order of orgs;
\* the match is a title match iff the result is non-empty
is_title_match(notes) ==
  IF notes = "" THEN <<>>
  ELSE LET notes_lower == lower(chars(notes))
           matched(org) == /\ Contains(chars(org), notes_lower)
                           /\ \E k \in 1..Len(title_keywords) :
                                 Contains(chars(title_keywords[k]), notes_lower)
       IN  SelectSeq(orgs, matched)

\* the first weight class named in the notes or in the weight-class column
FindWeight(notes, weight_class) ==
  LET notes_lower == lower(chars(notes))
      wc_lower == lower(chars(weight_class))
      hit(w) == Contains(chars(w), notes_lower) \/ Contains(chars(w), wc_lower)
      hits == SelectSeq(weights, hit)
  IN  IF hits = <<>> THEN "" ELSE hits[1]

HasPinfallOrSubmission(method) ==
  LET method_lower == lower(chars(method))
  IN  Contains(chars("pinfall"), method_lower) \/ Contains(chars("submission"), method_lower)

\* variant: the word "disqualification" is not tested, only its abbreviation
can_change_title_NoDisqualification(method) ==
  LET method_lower == lower(chars(method))
  IN  \/ Contains(chars("pinfall"), method_lower)
      \/ Contains(chars("submission"), method_lower)
      \/ /\ ~Contains(chars("dq"), method_lower)
         /\ ~Contains(chars("countout"), method_lower)
         /\ ~Contains(chars("count out"), method_lower)

can_change_title(method) ==
  LET method_lower == lower(chars(method))
  IN  \/ Contains(chars("pinfall"), method_lower)
      \/ Contains(chars("submission"), method_lower)
      \/ /\ ~Contains(chars("dq"), method_lower)
         /\ ~Contains(chars("countout"), method_lower)
         /\ ~Contains(chars("count out"), method_lower)
         /\ ~Contains(chars("disqualification"), method_lower)

(***************************************************************************)
(* The explored inputs: the match cards of list.html in file order and the *)
(* VACATED TITLE comments.                                                 *)
(***************************************************************************)
Date(fmt, y, m, d) == [fmt |-> fmt, y |-> y, m |-> m, d |-> d]

Row(f1, result, f2, method, notes) ==
  [fighter1 |-> f1, result |-> result, fighter2 |-> f2, method |-> method,
   notes |-> notes, weight_class |-> "Heavyweight"]

Card(name, date, rows) == [name |-> name, date |-> date, rows |-> rows]

SeqsUpTo(S, n) == UNION {[1..k -> S] : k \in 0..n}

\* the k-th card of a file whose cards are in chronological order, one a month
SlotDate(k) == Date("B d, Y", 1970 + ((k - 1) \div 12), ((k - 1) % 12) + 1, 1)

SlotName(k) == "Card" \o ToString(k)

Methods == {"Pinfall", "Submission", "Decision", "Disqualification", "Count Out", "Knockout"}

\* every method and result class, for one title line, cards in date order
MethodRows ==
  {Row(p[1], "def.", p[2], m, "WWF Heavyweight title") :
      p \in {<<"A", "B">>, <<"B", "A">>}, m \in Methods}
  \cup {Row("A", "draw", "B", "Time Limit", "WWF Heavyweight title")}

MethodLogs ==
  {[k \in DOMAIN rs |-> Card(SlotName(k), SlotDate(k), <<rs[k]>>)] : rs \in SeqsUpTo(MethodRows, MaxEvents)}

\* matches for two title lines at once, for no known weight class, without title,
\* and a third wrestler
NotesRows ==
  {Row(p[1], "def.", p[2], m, "WWF and WWO Heavyweight titles") :
      p \in {<<"A", "B">>, <<"B", "A">>}, m \in {"Pinfall", "Disqualification"}}
  \cup {[Row("A", "def.", "B", "Pinfall", "WWF Openweight title") EXCEPT !.weight_class = ""],
        Row("A", "def.", "B", "Pinfall", ""),
        Row("C", "def.", "A", "Pinfall", "WWF Heavyweight title"),
        Row("A", "vs.", "B", "Time Limit", "WWF and WWO Heavyweight titles")}

NotesLogs ==
  {[k \in DOMAIN rs |-> Card(SlotName(k), SlotDate(k), <<rs[k]>>)] : rs \in SeqsUpTo(NotesRows, MaxEvents)}

\* cards in any date order, several on one date, with vacancies
EventDates == {Date("B d, Y", 1970, 1, 1), Date("B Y", 1970, 6, 0), Date("B d, Y", 1971, 2, 1)}

DateRows ==
  {Row("A", "def.", "B", "Pinfall", "WWF Heavyweight title"),
   Row("B", "def.", "A", "Pinfall", "WWF Heavyweight title")}

DateLogs ==
  {[k \in DOMAIN cs |-> Card(SlotName(k), cs[k][1], <<cs[k][2]>>)] :
      cs \in SeqsUpTo(EventDates \X DateRows, MaxEvents)}

\* cards of which some carry a date that parse_date does not read
UnparsedDates == {Date("B d, Y", 1970, 1, 1), Date("d B Y", 1970, 12, 3)}

UnparsedLogs ==
  {[k \in DOMAIN cs |-> Card(SlotName(k), cs[k][1], <<cs[k][2]>>)] :
      cs \in SeqsUpTo(UnparsedDates \X DateRows, MaxEvents)}

VacancyDates == {Date("B Y", 1970, 12, 0), Date("d B Y", 1970, 12, 3)}

VacancyComments ==
  {[org |-> "wwf", weight |-> "heavyweight", champion |-> c, date |-> d, message |-> "Title vacated"] :
      c \in {"A"}, d \in VacancyDates}

VacancyLogs == SeqsUpTo(VacancyComments, MaxVacancies)

\* the four title matches of the (WWF, Heavyweight) scenario, in any file order
ScenarioCards ==
  {Card("Match1", Date("B d, Y", 1970, 1, 1), <<Row("A", "def.", "B", "Pinfall", "WWF Heavyweight title")>>),
   Card("Match2", Date("B d, Y", 1970, 6, 1), <<Row("A", "def.", "C", "Submission", "WWF Heavyweight title")>>),
   Card("Match3", Date("B d, Y", 1970, 12, 1), <<Row("D", "def.", "A", "Disqualification", "WWF Heavyweight title")>>),
   Card("Match4", Date("B d, Y", 1971, 2, 1), <<Row("D", "def.", "A", "Pinfall", "WWF Heavyweight title")>>)}

ScenarioLogs ==
  {cs \in [1..Cardinality(ScenarioCards) -> ScenarioCards] : Range(cs) = ScenarioCards}

\* the method classes that decide whether a title can change hands, as they
\* are written on the page: A wins by Pinfall, B wins by any method, cards in
\* date order
ClassMethods ==
  {"Pinfall", "Submission", "Decision", "DQ", "Disqualification", "Count Out", "Countout"}

ClassRows ==
  {Row("A", "def.", "B", "Pinfall", "WWF Heavyweight title")}
  \cup {Row("B", "def.", "A", m, "WWF Heavyweight title") : m \in ClassMethods}

ClassLogs ==
  {[k \in DOMAIN rs |-> Card(SlotName(k), SlotDate(k), <<rs[k]>>)] : rs \in SeqsUpTo(ClassRows, MaxEvents)}

\* the rows that champ.py writes to the weekly page
ChampRows ==
  {Row(p[1], "def.", p[2], m, "WWF Heavyweight championship") :
      p \in {<<"A", "B">>, <<"B", "A">>}, m \in {"Pinfall", "Submission"}}

AllRows ==
  MethodRows \cup NotesRows \cup DateRows \cup ClassRows \cup ChampRows
  \cup UNION {Range(c.rows) : c \in ScenarioCards}

\* is_title_match, the weight lookup and the method tests, tabulated over the inputs
TitleOrgs == [n \in {r.notes : r \in AllRows} |-> is_title_match(n)]

TitleWeight ==
  [n \in {r.notes : r \in AllRows} |-> [wc \in {r.weight_class : r \in AllRows} |-> FindWeight(n, wc)]]

PinfallOrSubmission == [m \in {r.method : r \in AllRows} |-> HasPinfallOrSubmission(m)]

CanChangeTitle == [m \in {r.method : r \in AllRows} |-> can_change_title(m)]

(***************************************************************************)
(* Title lines and reigns.                                                 *)
(***************************************************************************)
Lines == Range(orgs) \X Range(weights)

NoReigns == [l \in Lines |-> <<>>]

NewReign(match) ==
  [champion |-> match.winner, date |-> match.date, event |-> match.event,
   defenses |-> 0, days |-> None, vacancy_message |-> ""]

\* variant: at ingestion only a win of the champion counts as a defense
ProvisionalOrg_WinsOnly(ch, match, org, weight) ==
  LET l == <<org, weight>>
      current_reigns == ch[l]
      n == Len(current_reigns)
  IN  IF /\ match.winner # ""
         /\ (n = 0 \/ current_reigns[n].champion # match.winner)
         /\ CanChangeTitle[match.method]
      THEN [ch EXCEPT ![l] = Append(@, NewReign(match))]
      ELSE IF n > 0 /\ match.winner = current_reigns[n].champion
           THEN [ch EXCEPT ![l][n].defenses = @ + 1]
           ELSE ch

\* one iteration of `for org in orgs` of check_championship_change
ProvisionalOrg(ch, match, org, weight) ==
  LET l == <<org, weight>>
      current_reigns == ch[l]
      n == Len(current_reigns)
      champion_lost == /\ match.winner # ""
                       /\ match.winner # current_reigns[n].champion
                       /\ PinfallOrSubmission[match.method]
  IN  IF /\ match.winner # ""
         /\ (n = 0 \/ current_reigns[n].champion # match.winner)
         /\ CanChangeTitle[match.method]
      THEN [ch EXCEPT ![l] = Append(@, NewReign(match))]
      ELSE IF n > 0 /\ ~champion_lost
           THEN [ch EXCEPT ![l][n].defenses = @ + 1]
           ELSE ch

\* variant: a title change is also counted as a defense of the reign it ends
ReprocessOrg_CountsChange(ch, match, org, weight) ==
  LET l == <<org, weight>>
      current_reigns == ch[l]
      n == Len(current_reigns)
      champion_lost == /\ match.winner # ""
                       /\ match.winner # current_reigns[n].champion
                       /\ PinfallOrSubmission[match.method]
  IN  IF /\ match.winner # ""
         /\ (n = 0 \/ current_reigns[n].champion # match.winner)
         /\ CanChangeTitle[match.method]
      THEN [ch EXCEPT ![l] =
              Append(IF n = 0 THEN @ ELSE [@ EXCEPT ![n].defenses = @ + 1], NewReign(match))]
      ELSE IF n > 0 /\ ~champion_lost
           THEN [ch EXCEPT ![l][n] =
                   [@ EXCEPT !.defenses = @ + 1,
                             !.days = IF Truthy(current_reigns[n].date) /\ Truthy(match.date)
                                      THEN days_between(current_reigns[n].date, match.date)
                                      ELSE @]]
           ELSE ch

\* variant: only a pinfall or a submission changes a title
ReprocessOrg_PinfallOnly(ch, match, org, weight) ==
  LET l == <<org, weight>>
      current_reigns == ch[l]
      n == Len(current_reigns)
      champion_lost == /\ match.winner # ""
                       /\ match.winner # current_reigns[n].champion
                       /\ PinfallOrSubmission[match.method]
  IN  IF /\ match.winner # ""
         /\ (n = 0 \/ current_reigns[n].champion # match.winner)
         /\ PinfallOrSubmission[match.method]
      THEN [ch EXCEPT ![l] = Append(@, NewReign(match))]
      ELSE IF n > 0 /\ ~champion_lost
           THEN [ch EXCEPT ![l][n] =
                   [@ EXCEPT !.defenses = @ + 1,
                             !.days = IF Truthy(current_reigns[n].date) /\ Truthy(match.date)
                                      THEN days_between(current_reigns[n].date, match.date)
                                      ELSE @]]
           ELSE ch

\* one iteration of `for org in orgs` of reprocess_championships_chronologically
\* variant: a match in which the champion does not take part leaves the line alone
ReprocessOrg_ChampionInMatch(ch, match, org, weight) ==
  LET l == <<org, weight>>
      current_reigns == ch[l]
      n == Len(current_reigns)
      champion_lost == /\ match.winner # ""
                       /\ match.winner # current_reigns[n].champion
                       /\ PinfallOrSubmission[match.method]
  IN  IF n > 0 /\ current_reigns[n].champion \notin {match.fighter1, match.fighter2}
      THEN ch
      ELSE IF /\ match.winner # ""
              /\ (n = 0 \/ current_reigns[n].champion # match.winner)
              /\ CanChangeTitle[match.method]
           THEN [ch EXCEPT ![l] = Append(@, NewReign(match))]
           ELSE IF n > 0 /\ ~champion_lost
                THEN [ch EXCEPT ![l][n] =
                        [@ EXCEPT !.defenses = @ + 1,
                                  !.days = IF Truthy(current_reigns[n].date) /\ Truthy(match.date)
                                           THEN days_between(current_reigns[n].date, match.date)
                                           ELSE @]]
                ELSE ch

ReprocessOrg(ch, match, org, weight) ==
  LET l == <<org, weight>>
      current_reigns == ch[l]
      n == Len(current_reigns)
      champion_lost == /\ match.winner # ""
                       /\ match.winner # current_reigns[n].champion
                       /\ PinfallOrSubmission[match.method]
  IN  IF /\ match.winner # ""
         /\ (n = 0 \/ current_reigns[n].champion # match.winner)
         /\ CanChangeTitle[match.method]
      THEN [ch EXCEPT ![l] = Append(@, NewReign(match))]
      ELSE IF n > 0 /\ ~champion_lost
           THEN [ch EXCEPT ![l][n] =
                   [@ EXCEPT !.defenses = @ + 1,
                             !.days = IF Truthy(current_reigns[n].date) /\ Truthy(match.date)
                                      THEN days_between(current_reigns[n].date, match.date)
                                      ELSE @]]
           ELSE ch

RECURSIVE ReprocessOrgs(_, _, _, _)
ReprocessOrgs(ch, match, os, weight) ==
  IF os = <<>> THEN ch
  ELSE ReprocessOrgs(ReprocessOrg(ch, match, Head(os), weight), match, Tail(os), weight)

RECURSIVE ProvisionalOrgs(_, _, _, _)
ProvisionalOrgs(ch, match, os, weight) ==
  IF os = <<>> THEN ch
  ELSE ProvisionalOrgs(ProvisionalOrg(ch, match, Head(os), weight), match, Tail(os), weight)


check_championship_change(ch, match) ==
  LET os == TitleOrgs[match.notes]
      weight == TitleWeight[match.notes][match.weight_class]
  IN  IF os = <<>> \/ weight = "" THEN ch
      ELSE ProvisionalOrgs(ch, match, os, weight)

\* variant: a match without a winner is not skipped
ReprocessOne_CountsDraws(ch, match) ==
  LET os == TitleOrgs[match.notes]
      weight == TitleWeight[match.notes][match.weight_class]
  IN  IF os = <<>> \/ weight = "" THEN ch
      ELSE ReprocessOrgs(ch, match, os, weight)

\* the body of the match loop of reprocess_championships_chronologically
ReprocessOne(ch, match) ==
  LET os == TitleOrgs[match.notes]
      weight == TitleWeight[match.notes][match.weight_class]
  IN  IF os = <<>> \/ match.winner = "" \/ weight = "" THEN ch
      ELSE ReprocessOrgs(ch, match, os, weight)

(***************************************************************************)
(* Ingestion: parse_events / parse_match_card / record_match.             *)
(* Of a wrestler's record the model keeps the win/loss/draw counters; the  *)
(* bio notes, method splits and main-event counters are not modelled.      *)
(***************************************************************************)
NewWrestler == [wins |-> 0, losses |-> 0, draws |-> 0]

get_wrestler(w, name) ==
  IF name \in DOMAIN w THEN w ELSE (name :> NewWrestler) @@ w

\* a row of a match card becomes a match dictionary
ParseRow(row, event_name, event_date) ==
  LET decisive == row.result \in {"def.", "defeated", "def"}
  IN  [fighter1 |-> row.fighter1, fighter2 |-> row.fighter2,
       winner |-> IF decisive THEN row.fighter1 ELSE "",
       loser |-> IF decisive THEN row.fighter2 ELSE "",
       is_draw |-> (~decisive /\ row.result \in {"draw", "vs.", "vs"}),
       method |-> row.method, notes |-> row.notes, weight_class |-> row.weight_class,
       event |-> event_name, date |-> event_date]

\* record_match on the pair (wrestlers, championships)
record_match(st, match) ==
  LET w0 == get_wrestler(get_wrestler(st.w, match.fighter1), match.fighter2)
  IN  IF match.is_draw
      THEN LET w1 == [w0 EXCEPT ![match.fighter1].draws = @ + 1]
           IN  [w |-> [w1 EXCEPT ![match.fighter2].draws = @ + 1], ch |-> st.ch]
      ELSE IF match.winner # ""
           THEN LET w1 == [w0 EXCEPT ![match.winner].wins = @ + 1]
                IN  [w |-> [w1 EXCEPT ![match.loser].losses = @ + 1],
                     ch |-> check_championship_change(st.ch, match)]
           ELSE [w |-> w0, ch |-> st.ch]

RECURSIVE RecordAll(_, _)
RecordAll(st, ms) ==
  IF ms = <<>> THEN st ELSE RecordAll(record_match(st, Head(ms)), Tail(ms))

(***************************************************************************)
(* The chronological sort of main: list.sort is stable and raises          *)
(* TypeError when a key is None and there is something to compare it with. *)
(***************************************************************************)
SortKey(e) == IF Truthy(e.date) THEN parse_date(e.date) ELSE datetime_min

RECURSIVE InsertSorted(_, _)
InsertSorted(sorted, e) ==
  IF sorted = <<>> THEN <<e>>
  ELSE LET last == sorted[Len(sorted)]
       IN  IF SortKey(e) < SortKey(last)
           THEN Append(InsertSorted(SubSeq(sorted, 1, Len(sorted) - 1), e), last)
           ELSE Append(sorted, e)

RECURSIVE StableSort(_)
StableSort(es) ==
  IF es = <<>> THEN <<>>
  ELSE InsertSorted(StableSort(SubSeq(es, 1, Len(es) - 1)), es[Len(es)])

SortRaises(es) == Len(es) >= 2 /\ \E i \in 1..Len(es) : SortKey(es[i]) = None

RECURSIVE AllMatches(_)
AllMatches(es) ==
  IF es = <<>> THEN <<>> ELSE Head(es).matches \o AllMatches(Tail(es))

(***************************************************************************)
(* process_vacancies and calculate_championship_days.                      *)
(***************************************************************************)
\* index of the last reign of the vacating champion, 0 when there is none
LastReignOf(reigns, champion) ==
  LET idx == {i \in 1..Len(reigns) : reigns[i].champion = champion}
  IN  IF idx = {} THEN 0 ELSE CHOOSE i \in idx : \A j \in idx : j <= i

ProcessVacancy(ch, vacancy) ==
  LET l == <<vacancy.org, vacancy.weight>>
      i == LastReignOf(ch[l], vacancy.champion)
  IN  IF i = 0 THEN ch
      ELSE [ch EXCEPT ![l][i] =
              [@ EXCEPT !.days = IF Truthy(ch[l][i].date) /\ Truthy(vacancy.date)
                                 THEN days_between(ch[l][i].date, vacancy.date)
                                 ELSE @,
                        !.vacancy_message = vacancy.message]]

RECURSIVE process_vacancies(_, _)
process_vacancies(ch, vs) ==
  IF vs = <<>> THEN ch ELSE process_vacancies(ProcessVacancy(ch, Head(vs)), Tail(vs))

\* the latest parseable event date, None when there is none
MostRecentDate(es) ==
  LET ds == {parse_date(es[i].date) : i \in {j \in 1..Len(es) : Truthy(es[j].date)}} \ {None}
  IN  IF ds = {} THEN None ELSE CHOOSE d \in ds : \A e \in ds : e <= d

\* variant: the current champion's reign is not measured against the latest event
ReignDays_SkipsCurrent(reigns, i, most_recent_date) ==
  IF reigns[i].days # None THEN reigns[i].days
  ELSE IF i < Len(reigns)
       THEN days_between(reigns[i].date, reigns[i + 1].date)
       ELSE None

ReignDays(reigns, i, most_recent_date) ==
  IF reigns[i].days # None THEN reigns[i].days
  ELSE IF i < Len(reigns)
       THEN days_between(reigns[i].date, reigns[i + 1].date)
       ELSE IF /\ most_recent_date # None
               /\ Truthy(reigns[i].date)
               /\ parse_date(reigns[i].date) # None
            THEN most_recent_date - parse_date(reigns[i].date)
            ELSE None

calculate_championship_days(ch, es) ==
  [l \in Lines |->
     [i \in 1..Len(ch[l]) |-> [ch[l][i] EXCEPT !.days = ReignDays(ch[l], i, MostRecentDate(es))]]]

(***************************************************************************)
(* The program.                                                            *)
(***************************************************************************)
\* update.py does not touch the state of p4p.py
P4PUnused ==
  /\ wiki = {}
  /\ ppv_wrestlers = {}
  /\ cache = <<>>
  /\ ret = <<>>
  /\ year = 0
  /\ men_woty = <<>>
  /\ women_woty = <<>>
  /\ yearly_men = <<>>
  /\ yearly_women = <<>>
  /\ hof_classes = <<>>
  /\ already_inducted = {}

Init ==
  /\ \/ html \in [comments : {<<>>}, details : MethodLogs \cup NotesLogs \cup ScenarioLogs \cup UnparsedLogs]
     \/ html \in [comments : VacancyLogs, details : DateLogs]
  /\ events = <<>>
  /\ wrestlers = <<>>
  /\ championships = NoReigns
  /\ vacancies = <<>>
  /\ pc = "parse_vacancy_comments"
  /\ pos = 0
  /\ run = 1
  /\ firstRun = NoReigns
  /\ P4PUnused

\* parse_events: the VACATED TITLE comments are read before the cards
ParseVacancyComments ==
  /\ pc = "parse_vacancy_comments"
  /\ vacancies' = vacancies \o html.comments
  /\ html' = [html EXCEPT !.comments = <<>>]
  /\ pc' = "parse_match_card"
  /\ UNCHANGED <<events, wrestlers, championships, pos, run, firstRun>>
  /\ UNCHANGED p4pVars

\* parse_match_card on the next card: every row is recorded, then the event is appended
ParseMatchCard ==
  /\ pc = "parse_match_card"
  /\ html.details # <<>>
  /\ LET card == Head(html.details)
         matches == [i \in DOMAIN card.rows |-> ParseRow(card.rows[i], card.name, card.date)]
         st == RecordAll([w |-> wrestlers, ch |-> championships], matches)
     IN  /\ wrestlers' = st.w
         /\ championships' = st.ch
         /\ events' = Append(events, [name |-> card.name, date |-> card.date, matches |-> matches])
  /\ html' = [html EXCEPT !.details = Tail(@)]
  /\ UNCHANGED <<vacancies, pc, pos, run, firstRun>>
  /\ UNCHANGED p4pVars

\* main: db.events.sort(...)
SortEvents ==
  /\ pc = "parse_match_card"
  /\ html.details = <<>>
  /\ IF SortRaises(events)
     THEN /\ pc' = "TypeError"
          /\ UNCHANGED events
     ELSE /\ pc' = "reprocess"
          /\ events' = StableSort(events)
  /\ UNCHANGED <<html, wrestlers, championships, vacancies, pos, run, firstRun>>
  /\ UNCHANGED p4pVars

\* variant: the replay starts from the reigns it finds
ReprocessClear_KeepsReigns ==
  /\ pc = "reprocess"
  /\ pos' = 1
  /\ pc' = "replay"
  /\ UNCHANGED <<html, events, wrestlers, championships, vacancies, run, firstRun>>
  /\ UNCHANGED p4pVars

\* reprocess_championships_chronologically: clear all championship data
ReprocessClear ==
  /\ pc = "reprocess"
  /\ championships' = NoReigns
  /\ pos' = 1
  /\ pc' = "replay"
  /\ UNCHANGED <<html, events, wrestlers, vacancies, run, firstRun>>
  /\ UNCHANGED p4pVars

\* reprocess_championships_chronologically: the next match of the loop
ReprocessMatch ==
  /\ pc = "replay"
  /\ pos <= Len(AllMatches(events))
  /\ championships' = ReprocessOne(championships, AllMatches(events)[pos])
  /\ pos' = pos + 1
  /\ UNCHANGED <<html, events, wrestlers, vacancies, pc, run, firstRun>>
  /\ UNCHANGED p4pVars

\* main: db.process_vacancies()
ProcessVacancies ==
  /\ pc = "replay"
  /\ pos > Len(AllMatches(events))
  /\ championships' = process_vacancies(championships, vacancies)
  /\ pc' = "calculate_days"
  /\ UNCHANGED <<html, events, wrestlers, vacancies, pos, run, firstRun>>
  /\ UNCHANGED p4pVars

\* main: db.calculate_championship_days()
CalculateDays ==
  /\ pc = "calculate_days"
  /\ championships' = calculate_championship_days(championships, events)
  /\ pc' = "done"
  /\ firstRun' = IF run = 1 THEN championships' ELSE firstRun
  /\ UNCHANGED <<html, events, wrestlers, vacancies, pos, run>>
  /\ UNCHANGED p4pVars

\* the derivation is run again over the same sorted event list
Rerun ==
  /\ pc = "done"
  /\ run = 1
  /\ run' = 2
  /\ pc' = "reprocess"
  /\ UNCHANGED <<html, events, wrestlers, championships, vacancies, pos, firstRun>>
  /\ UNCHANGED p4pVars

Next ==
  \/ ParseVacancyComments
  \/ ParseMatchCard
  \/ SortEvents
  \/ ReprocessClear
  \/ ReprocessMatch
  \/ ProcessVacancies
  \/ CalculateDays
  \/ Rerun

Spec == Init /\ [][Next]_vars

(***************************************************************************)
(* Vocabulary of the properties.                                           *)
(***************************************************************************)
WWFHeavy == <<"wwf", "heavyweight">>
WWOHeavy == <<"wwo", "heavyweight">>

\* the title lines a match is contested for, read off its notes
TitleLinesOf(notes) ==
  CASE notes = "WWF Heavyweight title" -> {WWFHeavy}
    [] notes = "WWF and WWO Heavyweight titles" -> {WWFHeavy, WWOHeavy}
    [] OTHER -> {}

NotEligible == {"Disqualification", "Count Out"}

\* the replay is about to process the match at pos
ReplayStep == pc = "replay" /\ pos <= Len(AllMatches(events))

CurrentMatch == AllMatches(events)[pos]

\* the match the replay processed last
PreviousMatch == AllMatches(events)[pos - 1]

Reigns(l) == championships[l]

LastReign(l) == championships[l][Len(championships[l])]

AllDatesParse == \A i \in 1..Len(events) : parse_date(events[i].date) # None

IsScenario == {events[i].name : i \in 1..Len(events)} = {c.name : c \in ScenarioCards}

(***************************************************************************)
(* C1. In the replay, a title match decided by Disqualification or Count   *)
(* Out never appends a reign to a line it is contested for and leaves the  *)
(* champion of the last reign in place; a title match won by Pinfall by    *)
(* someone who is not the champion of the line's last reign always appends *)
(* a reign of the winner with 0 defenses.                                  *)
(***************************************************************************)
C1_TitleChangeRule ==
  [][ReplayStep =>
       \A l \in TitleLinesOf(CurrentMatch.notes) :
          LET old == championships[l]
              new == championships'[l]
              m == CurrentMatch
          IN  /\ m.method \in NotEligible =>
                   /\ Len(new) = Len(old)
                   /\ \A i \in 1..Len(old) : new[i].champion = old[i].champion
              /\ (/\ m.method = "Pinfall"
                  /\ m.winner # ""
                  /\ (old = <<>> \/ old[Len(old)].champion # m.winner)) =>
                   /\ Len(new) = Len(old) + 1
                   /\ SubSeq(new, 1, Len(old)) = old
                   /\ new[Len(new)].champion = m.winner
                   /\ new[Len(new)].defenses = 0
                   /\ new[Len(new)].date = m.date]_vars

\* a challenger's Disqualification win was processed as a retention, then their Pinfall win opened a reign
C1_Witness ==
  /\ pc = "replay"
  /\ pos > 2
  /\ AllMatches(events)[pos - 2].method = "Disqualification"
  /\ AllMatches(events)[pos - 2].winner = PreviousMatch.winner
  /\ PreviousMatch.method = "Pinfall"
  /\ Len(Reigns(WWFHeavy)) = 2
  /\ Reigns(WWFHeavy)[1].champion = PreviousMatch.loser
  /\ Reigns(WWFHeavy)[1].defenses >= 1
  /\ LastReign(WWFHeavy).champion = PreviousMatch.winner
  /\ LastReign(WWFHeavy).defenses = 0

(***************************************************************************)
(* C2. The four-match scenario on the (WWF, Heavyweight) line ends, after  *)
(* the duration pass, with exactly two reigns: A from January 1, 1970 with *)
(* 2 defenses and 396 days, and D from February 1, 1971 with 0 defenses.   *)
(***************************************************************************)
C2_ScenarioReigns ==
  (pc = "done" /\ IsScenario) =>
     /\ Len(Reigns(WWFHeavy)) = 2
     /\ Reigns(WWFHeavy)[1].champion = "A"
     /\ Reigns(WWFHeavy)[1].date = Date("B d, Y", 1970, 1, 1)
     /\ Reigns(WWFHeavy)[1].defenses = 2
     /\ Reigns(WWFHeavy)[1].days = 396
     /\ Reigns(WWFHeavy)[2].champion = "D"
     /\ Reigns(WWFHeavy)[2].date = Date("B d, Y", 1971, 2, 1)
     /\ Reigns(WWFHeavy)[2].defenses = 0

(***************************************************************************)
(* C3. After the full pipeline every reign that was not vacated has, when  *)
(* it is not the last of its line, days = start of the next reign - its    *)
(* start, and when it is the last of its line, days = latest event date -  *)
(* its start, whatever its number of defenses.                             *)
(***************************************************************************)
C3_DaysToNextReign ==
  pc = "done" =>
     \A l \in Lines : \A i \in 1..Len(Reigns(l)) :
        Reigns(l)[i].vacancy_message = "" =>
           Reigns(l)[i].days =
              (IF i < Len(Reigns(l)) THEN parse_date(Reigns(l)[i + 1].date)
               ELSE MostRecentDate(events)) - parse_date(Reigns(l)[i].date)

(***************************************************************************)
(* C4. After the full pipeline consecutive reigns of a line are strictly   *)
(* ordered by start date and do not overlap: start(i) < start(i+1) and     *)
(* start(i) + days(i) <= start(i+1).                                       *)
(***************************************************************************)
C4_NoOverlap ==
  pc = "done" =>
     \A l \in Lines : \A i \in 1..(Len(Reigns(l)) - 1) :
        /\ parse_date(Reigns(l)[i].date) < parse_date(Reigns(l)[i + 1].date)
        /\ parse_date(Reigns(l)[i].date) + Reigns(l)[i].days <= parse_date(Reigns(l)[i + 1].date)

(***************************************************************************)
(* C5. After the full pipeline on a log whose event dates all parse, every *)
(* reign has a determined days value that is >= 0, and a line has at most  *)
(* one open reign (one that no later reign and no vacancy closed).         *)
(***************************************************************************)
OpenReigns(l) ==
  {i \in 1..Len(Reigns(l)) : i = Len(Reigns(l)) /\ Reigns(l)[i].vacancy_message = ""}

C5_DaysDetermined ==
  (pc = "done" /\ AllDatesParse) =>
     \A l \in Lines :
        /\ \A i \in 1..Len(Reigns(l)) : Reigns(l)[i].days # None /\ Reigns(l)[i].days >= 0
        /\ Cardinality(OpenReigns(l)) <= 1

\* a line with a vacated reign that recorded a defense, a later reign, all with days
C5_Witness ==
  /\ pc = "done"
  /\ AllDatesParse
  /\ Len(Reigns(WWFHeavy)) >= 2
  /\ \E i \in 1..Len(Reigns(WWFHeavy)) :
        Reigns(WWFHeavy)[i].vacancy_message # "" /\ Reigns(WWFHeavy)[i].defenses >= 1
  /\ \E v \in Range(vacancies) : parse_date(v.date) = None

(***************************************************************************)
(* C6. From one processed match of the replay to the next, in every line:  *)
(* the defenses of a reign never decrease and grow by at most 1, a reign   *)
(* that is not the last of its line keeps its defenses, and a reign with 0 *)
(* defenses is either newly appended or had 0 before.                      *)
(***************************************************************************)
C6_DefensesMonotone ==
  [][ReplayStep =>
       \A l \in Lines :
          LET old == championships[l]
              new == championships'[l]
          IN  /\ Len(new) \in {Len(old), Len(old) + 1}
              /\ \A i \in 1..Len(old) :
                    /\ new[i].defenses >= old[i].defenses
                    /\ new[i].defenses <= old[i].defenses + 1
                    /\ i < Len(new) => new[i].defenses = old[i].defenses
                    /\ new[i].champion = old[i].champion
              /\ \A i \in 1..Len(new) :
                    new[i].defenses = 0 => (i > Len(old) \/ old[i].defenses = 0)
              /\ Len(new) > Len(old) => new[Len(new)].defenses = 0]_vars

\* the replay has just appended a reign after a reign that recorded defenses
C6_Witness ==
  /\ pc = "replay"
  /\ pos > 1
  /\ Len(Reigns(WWFHeavy)) >= 2
  /\ Reigns(WWFHeavy)[1].defenses >= 1
  /\ LastReign(WWFHeavy).event = PreviousMatch.event

(***************************************************************************)
(* C7. Running the replay, the vacancy pass and the duration pass a second *)
(* time over the same sorted event list gives, for every line, the reigns  *)
(* of the first run, whatever the ingestion pass had left in the lines.    *)
(***************************************************************************)
C7_ReplayIdempotent ==
  (pc = "done" /\ run = 2) => championships = firstRun

\* the second run is complete on a log whose ingestion order was not chronological
C7_Witness ==
  /\ pc = "done"
  /\ run = 2
  /\ Len(Reigns(WWFHeavy)) >= 2
  /\ \E i \in 1..Len(Reigns(WWFHeavy)) : Reigns(WWFHeavy)[i].vacancy_message # ""
  /\ \E i, j \in 1..Len(events) : i < j /\ events[i].name = "Card2" /\ events[j].name = "Card1"

(***************************************************************************)
(* C8. A drawn title match leaves every title line as it is, in the replay *)
(* and at ingestion, also when a drawing fighter is the champion; at       *)
(* ingestion it adds 1 to the draws of both fighters and leaves their wins *)
(* and losses alone.                                                       *)
(***************************************************************************)
Counter(w, name, field) == IF name \in DOMAIN w THEN w[name][field] ELSE 0

IsDrawResult(result) == result \in {"draw", "vs."}

C8_DrawChangesNoTitle ==
  [][/\ (ReplayStep /\ CurrentMatch.winner = "") => championships' = championships
     /\ (/\ pc = "parse_match_card"
         /\ html.details # <<>>
         /\ Len(Head(html.details).rows) = 1
         /\ IsDrawResult(Head(html.details).rows[1].result)) =>
           LET row == Head(html.details).rows[1]
           IN  /\ championships' = championships
               /\ \A f \in {row.fighter1, row.fighter2} :
                     /\ Counter(wrestlers', f, "draws") = Counter(wrestlers, f, "draws") + 1
                     /\ Counter(wrestlers', f, "wins") = Counter(wrestlers, f, "wins")
                     /\ Counter(wrestlers', f, "losses") = Counter(wrestlers, f, "losses")
               /\ \A f \in DOMAIN wrestlers \ {row.fighter1, row.fighter2} :
                     wrestlers'[f] = wrestlers[f]]_vars

\* the replay has just passed a drawn title match of the champion
C8_Witness ==
  /\ pc = "replay"
  /\ pos > 1
  /\ PreviousMatch.is_draw
  /\ WWFHeavy \in TitleLinesOf(PreviousMatch.notes)
  /\ Reigns(WWFHeavy) # <<>>
  /\ LastReign(WWFHeavy).champion \in {PreviousMatch.fighter1, PreviousMatch.fighter2}
  /\ LastReign(WWFHeavy).defenses = 0
  /\ Counter(wrestlers, LastReign(WWFHeavy).champion, "draws") >= 1

(***************************************************************************)
(* C9. In the replay of a decisive title match, for every line it is       *)
(* contested for that has a last reign: when that reign's champion won, or *)
(* the method is Count Out or Disqualification, the reign's defenses grow  *)
(* by exactly 1 and no reign is appended; in every other case the defenses *)
(* stay and a reign of the winner is appended.                             *)
(***************************************************************************)
C9_DefenseOrChange ==
  [][(ReplayStep /\ CurrentMatch.winner # "") =>
       \A l \in TitleLinesOf(CurrentMatch.notes) :
          LET old == championships[l]
              new == championships'[l]
              n == Len(old)
              m == CurrentMatch
          IN  n > 0 =>
                IF m.winner = old[n].champion \/ m.method \in NotEligible
                THEN /\ Len(new) = n
                     /\ new[n].defenses = old[n].defenses + 1
                     /\ new[n].champion = old[n].champion
                     /\ SubSeq(new, 1, n - 1) = SubSeq(old, 1, n - 1)
                ELSE /\ Len(new) = n + 1
                     /\ SubSeq(new, 1, n) = old
                     /\ new[n + 1].champion = m.winner
                     /\ new[n + 1].defenses = 0]_vars

\* a champion kept the title on a Count Out loss and then lost it by an unlisted method
C9_Witness ==
  /\ pc = "replay"
  /\ pos > 2
  /\ Len(Reigns(WWFHeavy)) = 2
  /\ AllMatches(events)[pos - 2].method = "Count Out"
  /\ AllMatches(events)[pos - 2].loser = Reigns(WWFHeavy)[1].champion
  /\ PreviousMatch.method \in {"Decision", "Knockout"}
  /\ Reigns(WWFHeavy)[1].defenses = 1
  /\ LastReign(WWFHeavy).champion = PreviousMatch.winner

(***************************************************************************)
(* C10. A vacancy closes the open reign of the vacating champion: the      *)
(* first change-eligible title win of the line dated after the vacancy,    *)
(* also one by the vacating champion, starts a new reign on its date.      *)
(***************************************************************************)
\* the reigns of line l that started on or before the ordinal d
StartedBy(l, d) == {i \in 1..Len(Reigns(l)) : parse_date(Reigns(l)[i].date) <= d}

\* champion holds line l on the ordinal d: the latest reign started by d is theirs
HoldsAt(l, champion, d) ==
  /\ StartedBy(l, d) # {}
  /\ \A i \in StartedBy(l, d) : (\A j \in StartedBy(l, d) : j <= i) => Reigns(l)[i].champion = champion

\* positions of the change-eligible title wins of line l dated after the ordinal d
WinsAfter(l, d) ==
  {k \in 1..Len(AllMatches(events)) :
      LET m == AllMatches(events)[k]
      IN  /\ l \in TitleLinesOf(m.notes)
          /\ m.winner # ""
          /\ m.method \notin NotEligible
          /\ parse_date(m.date) > d}

C10_VacancyClosesReign ==
  (pc = "done" /\ AllDatesParse) =>
     \A v \in Range(vacancies) :
        LET l == <<v.org, v.weight>>
            d == parse_date(v.date)
        IN  (d # None /\ HoldsAt(l, v.champion, d)) =>
               \A k \in WinsAfter(l, d) :
                  (\A j \in WinsAfter(l, d) : k <= j) =>
                     \E i \in 1..Len(Reigns(l)) :
                        /\ Reigns(l)[i].date = AllMatches(events)[k].date
                        /\ Reigns(l)[i].champion = AllMatches(events)[k].winner
                        /\ Reigns(l)[i].event = AllMatches(events)[k].event

(***************************************************************************)
(* C11. A vacancy whose vacating champion is not the champion of the last  *)
(* reign of its line is dropped: when no vacancy names the champion of the *)
(* last reign of its line, process_vacancies leaves every reign as it was. *)
(***************************************************************************)
\* the vacancy names the champion of the last (open) reign of its line
NamesOpenReign(v) ==
  LET l == <<v.org, v.weight>>
  IN  Reigns(l) # <<>> /\ LastReign(l).champion = v.champion

C11_VacancyDropped ==
  [][(/\ pc = "replay"
      /\ pc' = "calculate_days"
      /\ \A v \in Range(vacancies) : ~NamesOpenReign(v))
     => championships' = championships]_vars

(***************************************************************************)
(* C12. An event whose date is written but cannot be parsed never aborts   *)
(* the run: the sort does not raise, the replay creates no reign from the  *)
(* event's matches and counts no defense for them, and each of its matches *)
(* is counted in the win/loss/draw totals of both wrestlers.               *)
(***************************************************************************)
Unparsed(date_str) == Truthy(date_str) /\ parse_date(date_str) = None

\* wins + losses + draws of every wrestler, summed
RECURSIVE TotalDecisions(_, _)
TotalDecisions(w, names) ==
  IF names = {} THEN 0
  ELSE LET n == CHOOSE x \in names : TRUE
       IN  w[n].wins + w[n].losses + w[n].draws + TotalDecisions(w, names \ {n})

C12_UnparsedDateNotFatal ==
  /\ [](pc # "TypeError")
  /\ [](pc = "done" => TotalDecisions(wrestlers, DOMAIN wrestlers) = 2 * Len(AllMatches(events)))
  /\ [][(ReplayStep /\ Unparsed(CurrentMatch.date)) => championships' = championships]_vars

(***************************************************************************)
(* wrestling/p4p.py.                                                       *)
(*                                                                         *)
(* Scores are Python floats.  The model computes them as fractions         *)
(* [n, d] in lowest terms, d > 0, the values the floats approximate.       *)
(* Loops over lists are written as comprehensions over their positions.    *)
(***************************************************************************)
RECURSIVE GCD(_, _)
GCD(a, b) == IF b = 0 THEN a ELSE GCD(b, a % b)

Frac(n, d) == LET g == GCD(abs(n), d) IN [n |-> n \div g, d |-> d \div g]

Whole(i) == [n |-> i, d |-> 1]

FAdd(a, b) ==
  LET g == GCD(a.d, b.d)
  IN  Frac(a.n * (b.d \div g) + b.n * (a.d \div g), (a.d \div g) * b.d)

FSub(a, b) ==
  LET g == GCD(a.d, b.d)
  IN  Frac(a.n * (b.d \div g) - b.n * (a.d \div g), (a.d \div g) * b.d)

FMul(a, b) ==
  LET g1 == GCD(abs(a.n), b.d)
      g2 == GCD(abs(b.n), a.d)
  IN  Frac((a.n \div g1) * (b.n \div g2), (a.d \div g2) * (b.d \div g1))

\* a / b for b > 0
FDiv(a, b) == Frac(a.n * b.d, a.d * b.n)

FLe(a, b) ==
  LET g == GCD(a.d, b.d)
  IN  a.n * (b.d \div g) <= b.n * (a.d \div g)

FLt(a, b) ==
  LET g == GCD(a.d, b.d)
  IN  a.n * (b.d \div g) < b.n * (a.d \div g)

FMin(a, b) == IF FLe(a, b) THEN a ELSE b

FMax(a, b) == IF FLe(a, b) THEN b ELSE a

\* round(x, 4), to the nearest multiple of 0.0001
round4(x) ==
  LET q == x.n \div x.d
      r == x.n % x.d
      hi == (100 * r) \div x.d
      r1 == (100 * r) % x.d
      lo == (100 * r1) \div x.d
      r2 == (100 * r1) % x.d
  IN  Frac(q * 10000 + hi * 100 + lo + (IF 2 * r2 >= x.d THEN 1 ELSE 0), 10000)

\* the largest element of a non-empty set of integers
Max(S) == CHOOSE x \in S : \A y \in S : y <= x

\* list.sort(key=...): stable, every element placed by the number of elements before it
SortByKey(xs, keys) ==
  LET n == Len(xs)
      place == [i \in 1..n |->
                  1 + Cardinality({j \in 1..n : keys[j] < keys[i] \/ (keys[j] = keys[i] /\ j < i)})]
  IN  [k \in 1..n |-> xs[CHOOSE i \in 1..n : place[i] = k]]

\* the constants of p4p.py
WEIGHT_ORDER == weights
MAJOR_ORGS == {"wwf", "wwo", "iwb"}
ALL_ORGS == {"wwf", "wwo", "iwb", "ring"}
OPEN_WIN_YEARLY_BONUS == 60
OPEN_WIN_GOAT_TITLE_PTS == 40
MENS_P4P_START == 1963
WOMENS_P4P_START == 1968
P4P_MIN_BOUTS == 3
P4P_MIN_CAREER_WINS == 2
WOTY_MAX_WINS == 7
WOTY_MAX_TIMES == 5
HOF_MAX_PER_YEAR == 3
HOF_MIN_WINS == 15
HOF_MIN_WIN_PCT == Frac(68, 100)
HOF_MIN_SCORE == 45
HOF_RETIREMENT_YEARS == 5

\* _year_of: the year of a date string, 0 when it does not parse
year_of(date_str) ==
  IF Truthy(date_str) /\ parse_date(date_str) # None THEN date_str.y ELSE 0

(***************************************************************************)
(* The database as p4p.py's main loads it.  A wrestler's record carries,   *)
(* besides the counters, main_events and the list matches that             *)
(* record_match appends to; order is the position of the wrestler in the   *)
(* dict db.wrestlers (insertion order).                                    *)
(***************************************************************************)
NewCareer(order) ==
  [wins |-> 0, losses |-> 0, draws |-> 0, main_events |-> 0, matches |-> <<>>, order |-> order]

get_career(w, name) ==
  IF name \in DOMAIN w THEN w ELSE (name :> NewCareer(Cardinality(DOMAIN w) + 1)) @@ w

\* record_match with the main-event counter, ppv_wrestlers and w['matches'];
\* st = [w, ch, ppv]
record_match_full(st, match, is_main_event, is_weekly) ==
  LET f1 == match.fighter1
      f2 == match.fighter2
      w0 == get_career(get_career(st.w, f1), f2)
      w1 == IF is_main_event
            THEN [w0 EXCEPT ![f1].main_events = @ + 1, ![f2].main_events = @ + 1]
            ELSE w0
      counted == record_match([w |-> w1, ch |-> st.ch], match)
      entry(result) == [result |-> result, m |-> match]
      w2 == IF match.is_draw
            THEN [counted.w EXCEPT ![f1].matches = Append(@, entry("Draw")),
                                   ![f2].matches = Append(@, entry("Draw"))]
            ELSE IF match.winner # ""
                 THEN [counted.w EXCEPT ![match.winner].matches = Append(@, entry("Win")),
                                        ![match.loser].matches = Append(@, entry("Loss"))]
                 ELSE counted.w
  IN  [w |-> w2, ch |-> counted.ch,
       ppv |-> IF is_weekly THEN st.ppv ELSE st.ppv \cup {f1, f2}]

\* main of p4p.py: key=lambda e: _parse_date(e.get('date')) or datetime.min
P4PSortKey(e) ==
  IF Truthy(e.date) /\ parse_date(e.date) # None THEN parse_date(e.date) ELSE datetime_min

P4PSort(es) == SortByKey(es, [i \in 1..Len(es) |-> P4PSortKey(es[i])])

(***************************************************************************)
(* build_caches.                                                           *)
(***************************************************************************)
\* match_results[name]: (year, result, method, match), sorted by year
MatchResultsOf(career) ==
  LET xs == [i \in DOMAIN career.matches |->
               [year |-> year_of(career.matches[i].m.date),
                result |-> career.matches[i].result,
                method |-> career.matches[i].m.method,
                m |-> career.matches[i].m]]
  IN  SortByKey(xs, [i \in DOMAIN xs |-> xs[i].year])

\* the years in which a reign counts as held: start .. start + days // 365
ReignYears(reign) ==
  LET start == year_of(reign.date)
      days == IF reign.days = None THEN 0 ELSE reign.days
  IN  IF start # 0 THEN start..(start + (days \div 365)) ELSE {}

ChampYearsOf(ch, name) ==
  UNION {UNION {ReignYears(ch[l][i]) : i \in {j \in 1..Len(ch[l]) : ch[l][j].champion = name}} :
           l \in ALL_ORGS \X Range(WEIGHT_ORDER)}

Women(w) ==
  {name \in DOMAIN w :
     \E i \in 1..Len(w[name].matches) :
        LET wc == lower(chars(w[name].matches[i].m.weight_class))
        IN  Contains(chars("lightweight"), wc) \/ Contains(chars("featherweight"), wc)}

build_caches(w, ch, es, open_data) ==
  [match_results |-> [name \in DOMAIN w |-> MatchResultsOf(w[name])],
   champ_years |-> [name \in DOMAIN w |-> ChampYearsOf(ch, name)],
   all_years |-> {year_of(es[i].date) : i \in 1..Len(es)} \ {0},
   women |-> Women(w),
   men |-> DOMAIN w \ Women(w),
   open_wins |-> [name \in {open_data[y] : y \in DOMAIN open_data} |->
                    {y \in DOMAIN open_data : open_data[y] = name}]]

\* lookups in the defaultdicts of the cache
match_results(name) ==
  IF name \in DOMAIN cache.match_results THEN cache.match_results[name] ELSE <<>>

champ_years(name) ==
  IF name \in DOMAIN cache.champ_years THEN cache.champ_years[name] ELSE {}

open_wins(name) ==
  IF name \in DOMAIN cache.open_wins THEN cache.open_wins[name] ELSE {}

\* cumulative_record: the loop stops at the first match after up_to_year
cumulative_record(name, up_to_year) ==
  LET mr == match_results(name)
      later == {i \in 1..Len(mr) : mr[i].year > up_to_year}
      seen == {i \in 1..Len(mr) : \A j \in later : i < j}
  IN  [wins |-> Cardinality({i \in seen : mr[i].result = "Win"}),
       losses |-> Cardinality({i \in seen : mr[i].result = "Loss"}),
       draws |-> Cardinality({i \in seen : mr[i].result = "Draw"})]

(***************************************************************************)
(* opponent_rating.                                                        *)
(***************************************************************************)
\* variant: draws count as decisions
opponent_rating_CountsDraws(opp_name, fight_year) ==
  IF opp_name \notin DOMAIN wrestlers THEN Whole(5)
  ELSE LET rec == cumulative_record(opp_name, fight_year)
           total == rec.wins + rec.losses + rec.draws
           win_pct == IF total # 0 THEN Frac(rec.wins, total) ELSE Whole(0)
           was_champ == \E y \in champ_years(opp_name) : y <= fight_year
       IN  IF was_champ THEN FMin(FAdd(Whole(80), FMul(win_pct, Whole(20))), Whole(100))
           ELSE IF FLe(Frac(70, 100), win_pct) /\ total >= 5
                THEN FAdd(Whole(60), FMul(win_pct, Whole(19)))
           ELSE IF FLe(Frac(50, 100), win_pct) /\ total >= 3
                THEN FAdd(Whole(40), FMul(win_pct, Whole(19)))
           ELSE IF FLe(Frac(40, 100), win_pct)
                THEN FAdd(Whole(20), FMul(win_pct, Whole(19)))
           ELSE FMax(Whole(5), FMul(win_pct, Whole(19)))

\* variant: title history does not override the record
opponent_rating_NoOverride(opp_name, fight_year) ==
  IF opp_name \notin DOMAIN wrestlers THEN Whole(5)
  ELSE LET rec == cumulative_record(opp_name, fight_year)
           total == rec.wins + rec.losses
           win_pct == IF total # 0 THEN Frac(rec.wins, total) ELSE Whole(0)
       IN  IF FLe(Frac(70, 100), win_pct) /\ total >= 5
           THEN FAdd(Whole(60), FMul(win_pct, Whole(19)))
           ELSE IF FLe(Frac(50, 100), win_pct) /\ total >= 3
                THEN FAdd(Whole(40), FMul(win_pct, Whole(19)))
           ELSE IF FLe(Frac(40, 100), win_pct)
                THEN FAdd(Whole(20), FMul(win_pct, Whole(19)))
           ELSE FMax(Whole(5), FMul(win_pct, Whole(19)))

opponent_rating(opp_name, fight_year) ==
  IF opp_name \notin DOMAIN wrestlers THEN Whole(5)
  ELSE LET rec == cumulative_record(opp_name, fight_year)
           total == rec.wins + rec.losses
           win_pct == IF total # 0 THEN Frac(rec.wins, total) ELSE Whole(0)
           was_champ == \E y \in champ_years(opp_name) : y <= fight_year
       IN  IF was_champ THEN FMin(FAdd(Whole(80), FMul(win_pct, Whole(20))), Whole(100))
           ELSE IF FLe(Frac(70, 100), win_pct) /\ total >= 5
                THEN FAdd(Whole(60), FMul(win_pct, Whole(19)))
           ELSE IF FLe(Frac(50, 100), win_pct) /\ total >= 3
                THEN FAdd(Whole(40), FMul(win_pct, Whole(19)))
           ELSE IF FLe(Frac(40, 100), win_pct)
                THEN FAdd(Whole(20), FMul(win_pct, Whole(19)))
           ELSE FMax(Whole(5), FMul(win_pct, Whole(19)))

(***************************************************************************)
(* main of p4p.py up to the caches.  The database is loaded by the methods *)
(* of WrestlingDatabase: parse_events row by row, then the replay, the     *)
(* vacancy pass and the duration pass as in update.py.                     *)
(***************************************************************************)
\* nothing is loaded yet
P4PStart ==
  /\ events = <<>>
  /\ wrestlers = <<>>
  /\ championships = NoReigns
  /\ vacancies = <<>>
  /\ pc = "parse_vacancy_comments"
  /\ pos = 0
  /\ run = 1
  /\ firstRun = NoReigns
  /\ ppv_wrestlers = {}
  /\ cache = <<>>
  /\ ret = <<>>
  /\ year = 0
  /\ men_woty = <<>>
  /\ women_woty = <<>>
  /\ yearly_men = <<>>
  /\ yearly_women = <<>>
  /\ hof_classes = <<>>
  /\ already_inducted = {}

\* parse_match_card, one row: the rows of the PPV list, then those of the weekly
\* list; pos counts the rows already read from the card
P4PParseRow ==
  /\ pc = "parse_match_card"
  /\ html.details # <<>> \/ html.weekly # <<>>
  /\ LET is_weekly == html.details = <<>>
         cards == IF is_weekly THEN html.weekly ELSE html.details
         card == Head(cards)
         name == IF is_weekly THEN "Live TV" ELSE card.name
         match == ParseRow(Head(card.rows), name, card.date)
         is_main_event == Len(card.rows) = 1
         st == record_match_full([w |-> wrestlers, ch |-> championships, ppv |-> ppv_wrestlers],
                                 match, is_main_event, is_weekly)
         rest == IF is_main_event THEN Tail(cards)
                 ELSE <<[card EXCEPT !.rows = Tail(@)]>> \o Tail(cards)
     IN  /\ wrestlers' = st.w
         /\ championships' = st.ch
         /\ ppv_wrestlers' = st.ppv
         /\ events' = IF pos = 0
                      THEN Append(events, [name |-> name, date |-> card.date, matches |-> <<match>>])
                      ELSE [events EXCEPT ![Len(events)].matches = Append(@, match)]
         /\ pos' = IF is_main_event THEN 0 ELSE pos + 1
         /\ html' = IF is_weekly THEN [html EXCEPT !.weekly = rest] ELSE [html EXCEPT !.details = rest]
  /\ UNCHANGED <<vacancies, pc, run, firstRun, wiki, cache, ret, year, men_woty, women_woty,
                 yearly_men, yearly_women, hof_classes, already_inducted>>

\* main: db.events.sort(...)
P4PSortEvents ==
  /\ pc = "parse_match_card"
  /\ html.details = <<>>
  /\ html.weekly = <<>>
  /\ events' = P4PSort(events)
  /\ pc' = "reprocess"
  /\ UNCHANGED <<html, wrestlers, championships, vacancies, pos, run, firstRun, p4pVars>>

\* main: cache = build_caches(db)
BuildCaches ==
  /\ pc = "done"
  /\ cache = <<>>
  /\ cache' = build_caches(wrestlers, championships, events, wiki)
  /\ pc' = "ready"
  /\ UNCHANGED <<html, events, wrestlers, championships, vacancies, pos, run, firstRun,
                 wiki, ppv_wrestlers, ret, year, men_woty, women_woty,
                 yearly_men, yearly_women, hof_classes, already_inducted>>

(***************************************************************************)
(* Specification of opponent_rating: the ledgers give wrestler A any       *)
(* record against B over two years, with or without a title.               *)
(***************************************************************************)
MaxYearWins == 3
MaxYearLosses == 2

Bouts(k, date, row) == [i \in 1..k |-> Card("Card", date, <<row>>)]

RatingLog(w1, l1, d1, w2, l2, title) ==
  LET y1 == Date("B d, Y", 1970, 1, 1)
      y2 == Date("B d, Y", 1971, 2, 1)
      won == Row("A", "def.", "B", "Decision", "")
      lost == Row("B", "def.", "A", "Decision", "")
      drew == Row("A", "draw", "B", "Time Limit", "")
      crowned == Row("A", "def.", "B", "Pinfall", "WWF Heavyweight title")
  IN  Bouts(IF title = 1970 THEN 1 ELSE 0, y1, crowned)
      \o Bouts(w1, y1, won) \o Bouts(l1, y1, lost) \o Bouts(d1, y1, drew)
      \o Bouts(IF title = 1971 THEN 1 ELSE 0, y2, crowned)
      \o Bouts(w2, y2, won) \o Bouts(l2, y2, lost)

RatingLogs ==
  {RatingLog(w1, l1, d1, w2, l2, title) :
     w1 \in 0..MaxYearWins, l1 \in 0..MaxYearLosses, d1 \in 0..1,
     w2 \in 0..MaxYearWins, l2 \in 0..MaxYearLosses, title \in {0, 1970, 1971}}

InitRating ==
  /\ html \in [comments : {<<>>}, details : RatingLogs, weekly : {<<>>}]
  /\ wiki = <<>>
  /\ P4PStart

\* a call opponent_rating(db, cache, opp_name, fight_year)
OpponentRating ==
  /\ pc = "ready"
  /\ \E opp_name \in {"A", "B", "Z"}, fight_year \in 1969..1971 :
        ret' = [opp_name |-> opp_name, fight_year |-> fight_year,
                rating |-> opponent_rating(opp_name, fight_year)]
  /\ pc' = "returned"
  /\ UNCHANGED <<html, events, wrestlers, championships, vacancies, pos, run, firstRun,
                 wiki, ppv_wrestlers, cache, year, men_woty, women_woty,
                 yearly_men, yearly_women, hof_classes, already_inducted>>

NextRating ==
  \/ ParseVacancyComments
  \/ P4PParseRow
  \/ P4PSortEvents
  \/ ReprocessClear
  \/ ReprocessMatch
  \/ ProcessVacancies
  \/ CalculateDays
  \/ BuildCaches
  \/ OpponentRating

SpecRating == InitRating /\ [][NextRating]_vars

(***************************************************************************)
(* C13. opponent_rating returns 5 for an unknown opponent and otherwise    *)
(* the first matching tier, with win_pct = wins / (wins + losses) through  *)
(* the year: champion by that year -> min(80 + 20 win_pct, 100); win_pct   *)
(* >= 0.70 with >= 5 decisions -> 60 + 19 win_pct; win_pct >= 0.50 with    *)
(* >= 3 decisions -> 40 + 19 win_pct; win_pct >= 0.40 -> 20 + 19 win_pct;  *)
(* else max(5, 19 win_pct); the result lies in [5, 100].                   *)
(***************************************************************************)
\* the matches of the ledger dated in a year <= y
MatchesThrough(y) ==
  {i \in 1..Len(AllMatches(events)) : year_of(AllMatches(events)[i].date) <= y}

WinsThrough(name, y) ==
  Cardinality({i \in MatchesThrough(y) : AllMatches(events)[i].winner = name})

LossesThrough(name, y) ==
  Cardinality({i \in MatchesThrough(y) : AllMatches(events)[i].loser = name})

DrawsThrough(name, y) ==
  Cardinality({i \in MatchesThrough(y) :
                 /\ AllMatches(events)[i].is_draw
                 /\ name \in {AllMatches(events)[i].fighter1, AllMatches(events)[i].fighter2}})

Known(name) ==
  \E i \in 1..Len(AllMatches(events)) :
     name \in {AllMatches(events)[i].fighter1, AllMatches(events)[i].fighter2}

\* name started a reign of some title line in a year <= y
HeldTitleBy(name, y) ==
  \E l \in Lines : \E i \in 1..Len(Reigns(l)) :
     /\ Reigns(l)[i].champion = name
     /\ year_of(Reigns(l)[i].date) # 0
     /\ year_of(Reigns(l)[i].date) <= y

\* the returned rating equals num / den
RatingIs(num, den) == ret.rating.n * den = num * ret.rating.d

C13_RatingTiers ==
  pc = "returned" =>
     LET w == WinsThrough(ret.opp_name, ret.fight_year)
         t == w + LossesThrough(ret.opp_name, ret.fight_year)
     IN  /\ 5 * ret.rating.d <= ret.rating.n
         /\ ret.rating.n <= 100 * ret.rating.d
         /\ IF ~Known(ret.opp_name) THEN RatingIs(5, 1)
            ELSE IF t = 0
                 THEN RatingIs(IF HeldTitleBy(ret.opp_name, ret.fight_year) THEN 80 ELSE 5, 1)
            ELSE IF HeldTitleBy(ret.opp_name, ret.fight_year)
                 THEN RatingIs(IF 80 * t + 20 * w <= 100 * t THEN 80 * t + 20 * w ELSE 100 * t, t)
            ELSE IF 10 * w >= 7 * t /\ t >= 5 THEN RatingIs(60 * t + 19 * w, t)
            ELSE IF 2 * w >= t /\ t >= 3 THEN RatingIs(40 * t + 19 * w, t)
            ELSE IF 5 * w >= 2 * t THEN RatingIs(20 * t + 19 * w, t)
            ELSE RatingIs(IF 19 * w >= 5 * t THEN 19 * w ELSE 5 * t, t)

\* an opponent without a title, with a draw, rated in the tier of 70% over 5 decisions
C13_Witness ==
  /\ pc = "returned"
  /\ Known(ret.opp_name)
  /\ ~HeldTitleBy(ret.opp_name, ret.fight_year)
  /\ DrawsThrough(ret.opp_name, ret.fight_year) >= 1
  /\ LossesThrough(ret.opp_name, ret.fight_year) >= 1
  /\ WinsThrough(ret.opp_name, ret.fight_year) + LossesThrough(ret.opp_name, ret.fight_year) >= 5
  /\ RatingIs(60 * (WinsThrough(ret.opp_name, ret.fight_year) + LossesThrough(ret.opp_name, ret.fight_year))
                + 19 * WinsThrough(ret.opp_name, ret.fight_year),
              WinsThrough(ret.opp_name, ret.fight_year) + LossesThrough(ret.opp_name, ret.fight_year))

(***************************************************************************)
(* compute_score.  The operator returns the locals of the call as a        *)
(* record; its field score is the value the function returns.              *)
(***************************************************************************)
\* sum of the integers f[x], x in S
RECURSIVE Sum(_, _)
Sum(f, S) ==
  IF S = {} THEN 0
  ELSE LET x == CHOOSE y \in S : TRUE IN f[x] + Sum(f, S \ {x})

RECURSIVE SumValues(_, _)
SumValues(vals, count) ==
  IF vals = {} THEN Whole(0)
  ELSE LET v == CHOOSE x \in vals : TRUE
       IN  FAdd(FMul(v, Whole(count[v])), SumValues(vals \ {v}, count))

\* sum of a list of fractions: every distinct value times its number of occurrences
FSum(terms) ==
  LET vals == Range(terms)
  IN  SumValues(vals, [v \in vals |-> Cardinality({i \in DOMAIN terms : terms[i] = v})])

\* positions <<line, i>> of the reigns of name
OwnReigns(name) ==
  UNION {{<<l, i>> : i \in {j \in 1..Len(championships[l]) : championships[l][j].champion = name}} :
           l \in ALL_ORGS \X Range(WEIGHT_ORDER)}

ReignAt(p) == championships[p[1]][p[2]]

\* reign.get('days') or 0
DaysOr0(reign) == IF reign.days = None THEN 0 ELSE reign.days

\* 25 if org == 'ring' else (30 if org in MAJOR_ORGS else 10)
OrgTitlePts(org) == IF org = "ring" THEN 25 ELSE IF org \in MAJOR_ORGS THEN 30 ELSE 10

\* the opponent of name in match m
Opponent(m, name) == IF m.fighter1 = name THEN m.fighter2 ELSE m.fighter1

\* 1.2 for a win by pinfall or submission
MethodMult(method) == IF PinfallOrSubmission[method] THEN Frac(12, 10) ELSE Whole(1)

\* the longest run of consecutive wins in a list of results
LongestStreak(ms) ==
  LET n == Len(ms)
      cur == [j \in 1..n |->
                IF ms[j].result # "Win" THEN 0
                ELSE j - Max({0} \cup {k \in 1..j : ms[k].result # "Win"})]
  IN  Max({0} \cup Range(cur))

\* the reigns of name that started in a known year <= ranking_year
ReignsStartedBy(name, ranking_year) ==
  {p \in OwnReigns(name) :
     year_of(ReignAt(p).date) # 0 /\ year_of(ReignAt(p).date) <= ranking_year}

\* a last reign without vacancy message, in any title line
is_current_champ(name) ==
  \E p \in OwnReigns(name) :
     p[2] = Len(championships[p[1]]) /\ ReignAt(p).vacancy_message = ""

\* variant: the sum is not capped at 100
dominance_score_Uncapped(win_pct, streak, max_def) ==
  FAdd(FMul(win_pct, Whole(70)),
       Whole((IF streak * 2 < 20 THEN streak * 2 ELSE 20)
             + (IF max_def * 5 < 30 THEN max_def * 5 ELSE 30)))

\* min(win_pct * 70 + min(streak * 2, 20) + min(max_def * 5, 30), 100)
dominance_score(win_pct, streak, max_def) ==
  FMin(FAdd(FMul(win_pct, Whole(70)),
            Whole((IF streak * 2 < 20 THEN streak * 2 ELSE 20)
                  + (IF max_def * 5 < 30 THEN max_def * 5 ELSE 30))),
       Whole(100))

\* compute_score, goat_mode=True, after the early returns
goat_score(name, ranking_year, matches_to_date) ==
  LET wins_at == {i \in DOMAIN matches_to_date : matches_to_date[i].result = "Win"}
      qw_terms == [i \in 1..Len(matches_to_date) |->
                     IF i \in wins_at
                     THEN FMul(opponent_rating(Opponent(matches_to_date[i].m, name),
                                               matches_to_date[i].year),
                               MethodMult(matches_to_date[i].method))
                     ELSE Whole(0)]
      qw_total == FSum(qw_terms)
      qw_wins == Cardinality(wins_at)
      norm == IF qw_wins < 1 THEN 1 ELSE IF qw_wins > 30 THEN 30 ELSE qw_wins
      quality_wins_score ==
        FMul(FMin(FDiv(qw_total, Whole(100 * norm)), Whole(1)), Whole(100))
      wins == qw_wins
      losses == Cardinality({i \in DOMAIN matches_to_date : matches_to_date[i].result = "Loss"})
      draws == Cardinality({i \in DOMAIN matches_to_date : matches_to_date[i].result = "Draw"})
      win_pct == IF 2 * wins + 2 * losses + draws # 0
                 THEN Frac(2 * wins, 2 * wins + 2 * losses + draws) ELSE Whole(0)
      streak == LongestStreak(matches_to_date)
      max_def == Max({0} \cup {ReignAt(p).defenses :
                                 p \in {q \in OwnReigns(name) :
                                          year_of(ReignAt(q).date) <= ranking_year}})
      dominance == dominance_score(win_pct, streak, max_def)
      counted == ReignsStartedBy(name, ranking_year)
      title_pts == Sum([p \in counted |-> OrgTitlePts(p[1][1])], counted)
      total_days == Sum([p \in counted |-> DaysOr0(ReignAt(p))], counted)
      longest_reign == Max({0} \cup {DaysOr0(ReignAt(p)) : p \in counted})
      championship_score ==
        FMin(FAdd(FAdd(Whole((IF title_pts < 85 THEN title_pts ELSE 85)
                             + (IF is_current_champ(name) THEN 20 ELSE 0)),
                       FMul(FMin(Frac(total_days, 365), Whole(3)), Whole(10))),
                  FMul(FMin(Frac(longest_reign, 365), Whole(2)), Whole(5))),
             Whole(100))
      draw_score == IF wrestlers[name].main_events * 20 < 100
                    THEN wrestlers[name].main_events * 20 ELSE 100
      open_win_years == {y \in open_wins(name) : y <= ranking_year}
      open_bonus == IF Cardinality(open_win_years) * OPEN_WIN_GOAT_TITLE_PTS
                         < OPEN_WIN_GOAT_TITLE_PTS * 3
                    THEN Cardinality(open_win_years) * OPEN_WIN_GOAT_TITLE_PTS
                    ELSE OPEN_WIN_GOAT_TITLE_PTS * 3
      championship_score_with_open == FMin(FAdd(championship_score, Whole(open_bonus)), Whole(100))
  IN  [quality_wins_score |-> quality_wins_score,
       win_pct |-> win_pct, streak |-> streak, max_def |-> max_def,
       dominance_score |-> dominance,
       title_pts |-> title_pts, total_days |-> total_days, longest_reign |-> longest_reign,
       championship_score |-> championship_score, open_bonus |-> open_bonus,
       championship_score_with_open |-> championship_score_with_open,
       draw_score |-> Whole(draw_score),
       score |-> round4(FAdd(FAdd(FMul(quality_wins_score, Frac(40, 100)),
                                  FMul(dominance, Frac(25, 100))),
                             FAdd(FMul(championship_score_with_open, Frac(25, 100)),
                                  FMul(Whole(draw_score), Frac(10, 100)))))]

\* is_top_calibre(opp_name, as_of_year)
is_top_calibre(opp_name, as_of_year) ==
  \/ \E y \in champ_years(opp_name) : y <= as_of_year
  \/ LET rec == cumulative_record(opp_name, as_of_year)
         t2 == rec.wins + rec.losses
     IN  t2 >= 5 /\ 10 * rec.wins >= 7 * t2

\* the year a reign ended for the yearly title count: the year of the next
\* reign, or 9999 for the last reign of a line (no reign has a 'vacancy_date')
end_year(p) ==
  IF p[2] < Len(championships[p[1]]) THEN year_of(championships[p[1]][p[2] + 1].date) ELSE 9999

\* compute_score, goat_mode=False, after the early returns
yearly_score(name, ranking_year, results, this_year_matches) ==
  LET yr_wins == Cardinality({i \in DOMAIN this_year_matches : this_year_matches[i].result = "Win"})
      yr_losses == Cardinality({i \in DOMAIN this_year_matches : this_year_matches[i].result = "Loss"})
      yr_draws == Cardinality({i \in DOMAIN this_year_matches : this_year_matches[i].result = "Draw"})
      yr_total == yr_wins + yr_losses + yr_draws
      counted == ReignsStartedBy(name, ranking_year)
      held == {p \in counted : end_year(p) >= ranking_year}
      titles_held_yr == Cardinality(held)
      titles_entering_yr == Cardinality({p \in held : year_of(ReignAt(p).date) < ranking_year})
      pts == [k \in 1..titles_held_yr |-> IF 30 - (k - 1) * 10 > 10 THEN 30 - (k - 1) * 10 ELSE 10]
      title_pts_sum == Sum(pts, 1..titles_held_yr)
      title_pts_yr == IF title_pts_sum < 80 THEN title_pts_sum ELSE 80
      held_title_yr == titles_held_yr > 0
      entered_as_champ == titles_entering_yr > 0
      champ_win_dates == {ReignAt(p).date : p \in counted}
      was_champ_before(match_date) ==
        \E cd \in champ_win_dates :
           /\ parse_date(cd) # None /\ parse_date(match_date) # None
           /\ parse_date(cd) < parse_date(match_date)
      defenses_this_yr ==
        Cardinality({i \in DOMAIN this_year_matches :
                       /\ this_year_matches[i].result = "Win"
                       /\ was_champ_before(this_year_matches[i].m.date)})
      base(i) == opponent_rating(Opponent(this_year_matches[i].m, name), this_year_matches[i].year)
      qw_terms == [i \in 1..Len(this_year_matches) |->
                     IF this_year_matches[i].result = "Win"
                     THEN FMul(FMul(base(i), MethodMult(this_year_matches[i].method)),
                               FMul(IF is_top_calibre(Opponent(this_year_matches[i].m, name),
                                                      this_year_matches[i].year)
                                    THEN Frac(14, 10) ELSE Whole(1),
                                    IF entered_as_champ THEN Frac(13, 10) ELSE Whole(1)))
                     ELSE IF this_year_matches[i].result = "Draw"
                          THEN FMul(base(i), Frac(40, 100))
                          ELSE Whole(0)]
      yr_qw == FSum(qw_terms)
      yr_qw_count == Frac(10 * yr_wins + 4 * yr_draws, 10)
      norm == FMax(FMin(yr_qw_count, Whole(WOTY_MAX_WINS)), Whole(1))
      yr_quality_score ==
        FMin(FAdd(FMul(FMin(FDiv(yr_qw, FMul(Whole(100), norm)), Whole(1)), Whole(100)),
                  FMul(Whole(title_pts_yr), Frac(3, 10))),
             Whole(100))
      yr_winpct == IF yr_total # 0 THEN Frac(yr_wins, yr_total) ELSE Whole(0)
      defense_bonus == IF defenses_this_yr * 10 < 50 THEN defenses_this_yr * 10 ELSE 50
      entering_champ_bonus == IF titles_entering_yr * 20 < 40 THEN titles_entering_yr * 20 ELSE 40
      yr_dom_score ==
        FMin(FAdd(FMul(yr_winpct, Whole(30)),
                  Whole(entering_champ_bonus
                        + (IF held_title_yr /\ ~entered_as_champ THEN 10 ELSE 0)
                        + defense_bonus + titles_held_yr * 3)),
             Whole(100))
      fought_champ_yr == \E i \in DOMAIN this_year_matches : FLe(Whole(80), base(i))
      activity == yr_total * 10 + (IF fought_champ_yr THEN 25 ELSE 0)
                  + (IF yr_draws > 0 THEN 15 ELSE 0)
      yr_activity == IF activity < 100 THEN activity ELSE 100
      year_score == FAdd(FAdd(FMul(yr_quality_score, Frac(50, 100)),
                              FMul(yr_dom_score, Frac(30, 100))),
                         FMul(Whole(yr_activity), Frac(20, 100)))
      cp_title_pts == Sum([p \in counted |-> OrgTitlePts(p[1][1])], counted)
      cp_days == Sum([p \in counted |-> DaysOr0(ReignAt(p))], counted)
      cp_longest == Max({0} \cup {DaysOr0(ReignAt(p)) : p \in counted})
      career_prestige ==
        FMin(FAdd(FAdd(Whole(IF cp_title_pts < 70 THEN cp_title_pts ELSE 70),
                       FMul(FMin(Frac(cp_days, 365), Whole(3)), Whole(8))),
                  FMul(FMin(Frac(cp_longest, 365), Whole(2)), Whole(4))),
             Whole(100))
      won_open_this_year == ranking_year \in open_wins(name)
      open_yearly_bonus == IF won_open_this_year THEN OPEN_WIN_YEARLY_BONUS ELSE 0
      raw == FAdd(FAdd(FMul(year_score, Frac(80, 100)), FMul(career_prestige, Frac(20, 100))),
                  Whole(open_yearly_bonus))
      last_fight == Max({0} \cup {results[i].year : i \in DOMAIN results})
      inactive == IF ranking_year - last_fight > 0 THEN ranking_year - last_fight ELSE 0
      decay == IF this_year_matches = <<>> /\ ~won_open_this_year
               THEN FMax(FSub(Whole(1), FMul(Whole(inactive), Frac(20, 100))), Frac(5, 10))
               ELSE Whole(1)
  IN  [yr_quality_score |-> yr_quality_score, yr_dom_score |-> yr_dom_score,
       yr_activity |-> Whole(yr_activity), career_prestige |-> career_prestige,
       titles_held_yr |-> titles_held_yr, titles_entering_yr |-> titles_entering_yr,
       defenses_this_yr |-> defenses_this_yr,
       won_open_this_year |-> won_open_this_year,
       raw |-> raw, score |-> round4(FMul(raw, decay))]

\* compute_score(db, cache, name, ranking_year, goat_mode)
compute_score(name, ranking_year, goat_mode) ==
  IF name \notin DOMAIN wrestlers THEN [score |-> Whole(0)]
  ELSE LET results == match_results(name)
           matches_to_date == SelectSeq(results, LAMBDA x : x.year <= ranking_year)
           this_year_matches == SelectSeq(results, LAMBDA x : x.year = ranking_year)
       IN  IF matches_to_date = <<>> THEN [score |-> Whole(0)]
           ELSE IF goat_mode THEN goat_score(name, ranking_year, matches_to_date)
           ELSE yearly_score(name, ranking_year, results, this_year_matches)

(***************************************************************************)
(* Specification of compute_score: A and B exchange a title in 1970 and    *)
(* meet without a title at the end of that year; A also beats J, who never *)
(* wins, in 1970, for the title in 1971 and possibly once more in 1975; A  *)
(* may have won the Open.                                                  *)
(***************************************************************************)
MaxSwitches == 3
MaxDefenses == 4

\* a card, or no card when it has no rows
CardIf(name, date, rows) == IF rows = <<>> THEN <<>> ELSE <<Card(name, date, rows)>>

ScoreLog(t, d, w, l, dr, late) ==
  LET crowned == Row("A", "def.", "B", "Pinfall", "WWF Heavyweight title")
      dethroned == Row("B", "def.", "A", "Pinfall", "WWF Heavyweight title")
      defended == Row("A", "def.", "J", "Pinfall", "WWF Heavyweight title")
      won == Row("A", "def.", "J", "Decision", "")
      lost == Row("B", "def.", "A", "Decision", "")
      drew == Row("A", "draw", "B", "Time Limit", "")
  IN  [k \in 1..t |-> Card(SlotName(k), SlotDate(k), <<IF k % 2 = 1 THEN crowned ELSE dethroned>>)]
      \o CardIf("Plain", Date("B d, Y", 1970, 12, 1),
                [i \in 1..w |-> won] \o [i \in 1..l |-> lost] \o [i \in 1..dr |-> drew])
      \o CardIf("Defense", Date("B d, Y", 1971, 2, 1), [i \in 1..d |-> defended])
      \o CardIf("Late", Date("B d, Y", 1975, 3, 1), [i \in 1..late |-> won])

ScoreLogs ==
  {ScoreLog(t, d, w, l, dr, late) :
     t \in 0..MaxSwitches, d \in 0..MaxDefenses, w \in 0..MaxYearWins,
     l \in 0..1, dr \in 0..1, late \in 0..1}

\* the winners of the Open by year, as scraped from the wiki
OpenData == {<<>>, 1973 :> "A", [y \in 1970..1973 |-> "A"]}

InitScore ==
  /\ html \in [comments : {<<>>}, details : ScoreLogs, weekly : {<<>>}]
  /\ wiki \in OpenData
  /\ P4PStart

\* a call compute_score(db, cache, name, ranking_year, goat_mode)
ComputeScore ==
  /\ pc = "ready"
  /\ \E name \in {"A", "B"}, ranking_year \in 1969..1975, goat_mode \in BOOLEAN :
        ret' = [name |-> name, ranking_year |-> ranking_year, goat_mode |-> goat_mode,
                out |-> compute_score(name, ranking_year, goat_mode)]
  /\ pc' = "returned"
  /\ UNCHANGED <<html, events, wrestlers, championships, vacancies, pos, run, firstRun,
                 wiki, ppv_wrestlers, cache, year, men_woty, women_woty,
                 yearly_men, yearly_women, hof_classes, already_inducted>>

NextScore ==
  \/ ParseVacancyComments
  \/ P4PParseRow
  \/ P4PSortEvents
  \/ ReprocessClear
  \/ ReprocessMatch
  \/ ProcessVacancies
  \/ CalculateDays
  \/ BuildCaches
  \/ ComputeScore

SpecScore == InitScore /\ [][NextScore]_vars

ScoreReturned == pc = "returned" /\ "out" \in DOMAIN ret

(***************************************************************************)
(* C14. In GOAT mode compute_score returns the rounded value of            *)
(* 0.40 QualityWins + 0.25 Dominance + 0.25 Championship + 0.10            *)
(* MainEventBonus, every component within [0, 100], where Dominance =      *)
(* min(70 win_pct + min(2 longest_streak, 20) + min(5 max_reign_defenses,  *)
(* 30), 100), MainEventBonus = min(20 main_events, 100), and Championship  *)
(* = min(min(title points capped at 85 + 20 if current champion + the      *)
(* duration bonuses, 100) + the Open bonus capped at 3 wins, 100).         *)
(***************************************************************************)
\* the matches of name dated in a year <= y, as positions of the ledger
BoutsThrough(name, y) ==
  {i \in MatchesThrough(y) :
     name \in {AllMatches(events)[i].fighter1, AllMatches(events)[i].fighter2}}

\* the longest run of consecutive bouts of name through y that name won
LongestRunThrough(name, y) ==
  LET bouts == BoutsThrough(name, y)
      between(i, j) == {k \in bouts : i <= k /\ k <= j}
  IN  Max({0} \cup {Cardinality(between(p[1], p[2])) :
                      p \in {q \in bouts \X bouts :
                               \A k \in between(q[1], q[2]) :
                                  AllMatches(events)[k].winner = name}})

\* the most defenses in a reign of name begun in a year <= y
MaxReignDefenses(name, y) ==
  Max({0} \cup UNION {{Reigns(l)[i].defenses :
                         i \in {j \in 1..Len(Reigns(l)) :
                                  /\ Reigns(l)[j].champion = name
                                  /\ year_of(Reigns(l)[j].date) <= y}} : l \in Lines})

\* the cards whose last match name fought
MainEventsOf(name) ==
  Cardinality({e \in 1..Len(events) :
                 name \in {events[e].matches[Len(events[e].matches)].fighter1,
                           events[e].matches[Len(events[e].matches)].fighter2}})

\* name holds a title now: the last reign of a line, not vacated
CurrentChampion(name) ==
  \E l \in Lines : /\ Reigns(l) # <<>>
                   /\ LastReign(l).champion = name
                   /\ LastReign(l).vacancy_message = ""

OpenWinsThrough(name, y) == Cardinality({o \in DOMAIN wiki : o <= y /\ wiki[o] = name})

\* 70 win_pct + min(2 streak, 20) + min(5 defenses, 30), before the cap
DominanceSum(name, y) ==
  LET w == WinsThrough(name, y)
      l == LossesThrough(name, y)
      d == DrawsThrough(name, y)
      s == LongestRunThrough(name, y)
      m == MaxReignDefenses(name, y)
  IN  FAdd(IF 2 * w + 2 * l + d = 0 THEN Whole(0) ELSE Frac(70 * 2 * w, 2 * w + 2 * l + d),
           Whole((IF 2 * s < 20 THEN 2 * s ELSE 20) + (IF 5 * m < 30 THEN 5 * m ELSE 30)))

InRange100(x) == FLe(Whole(0), x) /\ FLe(x, Whole(100))

GoatReturned ==
  /\ ScoreReturned
  /\ ret.goat_mode
  /\ BoutsThrough(ret.name, ret.ranking_year) # {}

C14_GoatComposite ==
  GoatReturned =>
     LET o == ret.out
         name == ret.name
         y == ret.ranking_year
         titles == (IF o.title_pts < 85 THEN o.title_pts ELSE 85)
                   + (IF CurrentChampion(name) THEN 20 ELSE 0)
         duration == FAdd(FMul(FMin(Frac(o.total_days, 365), Whole(3)), Whole(10)),
                          FMul(FMin(Frac(o.longest_reign, 365), Whole(2)), Whole(5)))
         open == IF OpenWinsThrough(name, y) < 3 THEN 40 * OpenWinsThrough(name, y) ELSE 120
     IN  /\ InRange100(o.quality_wins_score)
         /\ InRange100(o.dominance_score)
         /\ InRange100(o.championship_score_with_open)
         /\ InRange100(o.draw_score)
         /\ o.dominance_score = FMin(DominanceSum(name, y), Whole(100))
         /\ o.draw_score = Whole(IF 20 * MainEventsOf(name) < 100 THEN 20 * MainEventsOf(name) ELSE 100)
         /\ o.championship_score_with_open =
              FMin(FAdd(FMin(FAdd(Whole(titles), duration), Whole(100)), Whole(open)), Whole(100))
         /\ o.score = round4(FAdd(FAdd(FMul(Frac(40, 100), o.quality_wins_score),
                                       FMul(Frac(25, 100), o.dominance_score)),
                                  FAdd(FMul(Frac(25, 100), o.championship_score_with_open),
                                       FMul(Frac(10, 100), o.draw_score))))

\* a champion with a loss whose dominance sum and main-event bonus both exceed their caps
C14_Witness ==
  /\ GoatReturned
  /\ LossesThrough(ret.name, ret.ranking_year) >= 1
  /\ FLt(Whole(100), DominanceSum(ret.name, ret.ranking_year))
  /\ 20 * MainEventsOf(ret.name) > 100
  /\ CurrentChampion(ret.name)
  /\ ret.out.title_pts >= 30
  /\ FLt(Whole(0), ret.out.quality_wins_score)
  /\ FLt(ret.out.quality_wins_score, Whole(100))

(***************************************************************************)
(* C15. In yearly mode, for a wrestler with no match in ranking year Y who *)
(* did not win the Open in Y, compute_score multiplies the raw score by    *)
(* max(1 - 0.20 k, 0.5), k the number of years between Y and the           *)
(* wrestler's most recent fight at or before Y, whether or not the         *)
(* wrestler fights again after Y.                                          *)
(***************************************************************************)
\* the year of the most recent fight of name at or before y
LastFightThrough(name, y) ==
  Max({year_of(AllMatches(events)[i].date) : i \in BoutsThrough(name, y)})

YearlyIdleReturned ==
  /\ ScoreReturned
  /\ ~ret.goat_mode
  /\ BoutsThrough(ret.name, ret.ranking_year) # {}
  /\ BoutsThrough(ret.name, ret.ranking_year) = BoutsThrough(ret.name, ret.ranking_year - 1)
  /\ ~(ret.ranking_year \in DOMAIN wiki /\ wiki[ret.ranking_year] = ret.name)

C15_InactivityDecay ==
  YearlyIdleReturned =>
     LET k == ret.ranking_year - LastFightThrough(ret.name, ret.ranking_year)
     IN  ret.out.score =
           round4(FMul(ret.out.raw, FMax(FSub(Whole(1), FMul(Frac(20, 100), Whole(k))), Frac(5, 10))))

(***************************************************************************)
(* rank_for_year and the oldest-to-newest yearly loop.  An entry of the    *)
(* result carries the name, the score and the two records.  gender_set is  *)
(* a set of strings, whose iteration order Python does not fix.            *)
(***************************************************************************)
\* the enumerations of a finite set
Orders(S) ==
  {f \in [1..Cardinality(S) -> S] : \A i, j \in 1..Cardinality(S) : f[i] = f[j] => i = j}

\* results.sort(key=lambda x: x[1], reverse=True): stable, by descending score
SortByScore(xs) ==
  LET n == Len(xs)
      place == [i \in 1..n |->
                  1 + Cardinality({j \in 1..n : \/ FLt(xs[i].score, xs[j].score)
                                              \/ (xs[j].score = xs[i].score /\ j < i)})]
  IN  [k \in 1..n |-> xs[CHOOSE i \in 1..n : place[i] = k]]

\* woty_count.get(name, 0)
CountOf(woty_count, name) == IF name \in DOMAIN woty_count THEN woty_count[name] ELSE 0

\* woty_count[name] += 1 on a defaultdict(int)
Increment(woty_count, name) ==
  [n \in DOMAIN woty_count \cup {name} |-> CountOf(woty_count, n) + (IF n = name THEN 1 ELSE 0)]

\* the first n elements of a list
Take(xs, n) == SubSeq(xs, 1, IF Len(xs) < n THEN Len(xs) ELSE n)

\* the minimums of rank_for_year that precede the call of compute_score
Eligible(name, yr) ==
  LET mr == match_results(name)
      matches_to_year == SelectSeq(mr, LAMBDA x : x.year <= yr)
      last_fight == Max({0} \cup {mr[i].year : i \in DOMAIN mr})
      wins_to_year == Cardinality({i \in DOMAIN matches_to_year : matches_to_year[i].result = "Win"})
      total_to_year == Len(matches_to_year)
      won_open == yr \in open_wins(name)
  IN  /\ name \in ppv_wrestlers
      /\ matches_to_year # <<>>
      /\ ~(last_fight < yr - 2)
      /\ won_open \/ (total_to_year >= P4P_MIN_BOUTS /\ wins_to_year >= P4P_MIN_CAREER_WINS)

\* the tuple appended for name
RankEntry(name, yr) ==
  LET rec == cumulative_record(name, yr)
      this_year_m == SelectSeq(match_results(name), LAMBDA x : x.year = yr)
      count(r) == Cardinality({i \in DOMAIN this_year_m : this_year_m[i].result = r})
  IN  [name |-> name,
       score |-> compute_score(name, yr, FALSE).score,
       record |-> <<rec.wins, rec.losses, rec.draws>>,
       year_record |-> IF this_year_m # <<>> THEN <<count("Win"), count("Loss"), count("Draw")>>
                       ELSE <<>>]

\* the WOTY cap at the end of rank_for_year
Demote(results, woty_count) ==
  IF DOMAIN woty_count # {} /\ Len(results) >= 2
     /\ CountOf(woty_count, results[1].name) >= WOTY_MAX_TIMES
  THEN SortByScore([results EXCEPT ![1].score = FSub(results[2].score, Frac(1, 10000))])
  ELSE results

\* rank_for_year(db, cache, year, gender_set, top_n, woty_count): the lists
\* the call can return, one for every order in which the loop can meet the
\* names it keeps
rank_for_year(yr, gender_set, top_n, woty_count) ==
  UNION {{Take(Demote(SortByScore([i \in DOMAIN order |-> entries[order[i]]]), woty_count), top_n) :
            order \in Orders({name \in DOMAIN entries : FLt(Whole(0), entries[name].score)})} :
         entries \in {[name \in {n \in gender_set : Eligible(n, yr)} |-> RankEntry(name, yr)]}}

\* one iteration of `for year in sorted(years)` of generate_p4p_html
RankYear ==
  /\ pc = "ready"
  /\ \E y \in cache.all_years :
        /\ y > year
        /\ \A z \in cache.all_years : z > year => y <= z
        /\ year' = y
        /\ \E mranks \in rank_for_year(y, cache.men, 10, men_woty),
              wranks \in rank_for_year(y, cache.women, 10, women_woty) :
              /\ yearly_men' = IF y >= MENS_P4P_START THEN (y :> mranks) @@ yearly_men
                               ELSE yearly_men
              /\ men_woty' = IF y >= MENS_P4P_START /\ mranks # <<>>
                             THEN Increment(men_woty, mranks[1].name) ELSE men_woty
              /\ yearly_women' = IF y >= WOMENS_P4P_START THEN (y :> wranks) @@ yearly_women
                                 ELSE yearly_women
              /\ women_woty' = IF y >= WOMENS_P4P_START /\ wranks # <<>>
                               THEN Increment(women_woty, wranks[1].name) ELSE women_woty
  /\ UNCHANGED <<html, events, wrestlers, championships, vacancies, pc, pos, run, firstRun,
                 wiki, ppv_wrestlers, cache, ret, hof_classes, already_inducted>>

(***************************************************************************)
(* Specification of the yearly rankings: A beats J every year from 1970    *)
(* on, three times in the first year; B may do the same; C may have one    *)
(* bout, in 1970 or in 1972, and may have won the Open of 1973.            *)
(***************************************************************************)
MaxRankYears == 6

RankLog(n, b, cy) ==
  LET beats(x) == Row(x, "def.", "J", "Decision", "")
      rows(k) == [i \in 1..(IF k = 1 THEN 3 ELSE 1) |-> beats("A")]
                 \o (IF b THEN [i \in 1..(IF k = 1 THEN 3 ELSE 1) |-> beats("B")] ELSE <<>>)
                 \o (IF cy = 1969 + k THEN <<beats("C")>> ELSE <<>>)
  IN  [k \in 1..n |-> Card(SlotName(k), Date("B d, Y", 1969 + k, 1, 1), rows(k))]

RankLogs == {RankLog(n, b, cy) : n \in 1..MaxRankYears, b \in BOOLEAN, cy \in {0, 1970, 1972}}

InitRank ==
  /\ html \in [comments : {<<>>}, details : RankLogs, weekly : {<<>>}]
  /\ wiki \in {<<>>, 1973 :> "C"}
  /\ P4PStart

NextRank ==
  \/ ParseVacancyComments
  \/ P4PParseRow
  \/ P4PSortEvents
  \/ ReprocessClear
  \/ ReprocessMatch
  \/ ProcessVacancies
  \/ CalculateDays
  \/ BuildCaches
  \/ RankYear

SpecRank == InitRank /\ [][NextRank]_vars

(***************************************************************************)
(* C16. In rank_for_year(year) a wrestler who won the Open of that year is *)
(* not filtered out by any of the three minimums (career bouts, career     *)
(* wins, last fight at most 2 years before the year) and, with no match in *)
(* that year, is in the list with a score that includes the flat           *)
(* OPEN_WIN_YEARLY_BONUS.                                                  *)
(***************************************************************************)
\* name is in the list of year y with a score of at least the bonus
RankedWithBonus(name, y) ==
  \E i \in 1..Len(yearly_men[y]) :
     /\ yearly_men[y][i].name = name
     /\ FLe(Whole(OPEN_WIN_YEARLY_BONUS), yearly_men[y][i].score)

C16_OpenWinnerRanked ==
  \A y \in DOMAIN yearly_men :
     \A name \in cache.men :
        (y \in DOMAIN wiki /\ wiki[y] = name) => RankedWithBonus(name, y)

(***************************************************************************)
(* C17. In the oldest-to-newest yearly loop, a wrestler whose #1 count has *)
(* reached WOTY_MAX_TIMES is never returned at rank 1 again, so no         *)
(* woty_count entry exceeds WOTY_MAX_TIMES, whatever the candidates, a     *)
(* single eligible wrestler included.                                      *)
(***************************************************************************)
\* the number of years before y in which name was ranked first
TimesFirstBefore(yearly, name, y) ==
  Cardinality({z \in DOMAIN yearly : z < y /\ yearly[z] # <<>> /\ yearly[z][1].name = name})

CapKept(yearly, woty_count) ==
  /\ \A name \in DOMAIN woty_count : woty_count[name] <= WOTY_MAX_TIMES
  /\ \A y \in DOMAIN yearly :
        yearly[y] # <<>> => TimesFirstBefore(yearly, yearly[y][1].name, y) < WOTY_MAX_TIMES

C17_WotyCapNeverExceeded == CapKept(yearly_men, men_woty) /\ CapKept(yearly_women, women_woty)

(***************************************************************************)
(* hof_eligible and compute_hof_classes.                                   *)
(***************************************************************************)
\* the smallest element of a non-empty set of integers
Min(S) == CHOOSE x \in S : \A y \in S : x <= y

\* the keys of db.wrestlers in insertion order
WrestlerNames ==
  [k \in 1..Cardinality(DOMAIN wrestlers) |-> CHOOSE n \in DOMAIN wrestlers : wrestlers[n].order = k]

\* any(reign['champion'] == name for org in MAJOR_ORGS ...)
held_major(name) ==
  \E l \in MAJOR_ORGS \X Range(WEIGHT_ORDER) :
     \E i \in 1..Len(championships[l]) : championships[l][i].champion = name

\* variant: one win fewer is enough
WinCount_OneShort(w) == ~(w.wins < HOF_MIN_WINS - 1)

\* `if w['wins'] < HOF_MIN_WINS: continue`
WinCount(w) == ~(w.wins < HOF_MIN_WINS)

\* variant: a wrestler already inducted is considered again
HofGates_IgnoresInducted(name, induction_year, inducted) ==
  LET w == wrestlers[name]
      total == w.wins + w.losses + w.draws
      mr == match_results(name)
      last_fight == Max({0} \cup {mr[i].year : i \in DOMAIN mr})
  IN  /\ name \in ppv_wrestlers
      /\ total # 0
      /\ ~(last_fight > induction_year - HOF_RETIREMENT_YEARS)
      /\ WinCount(w)
      /\ ~FLt(Frac(w.wins, total), HOF_MIN_WIN_PCT)
      /\ held_major(name)

\* the checks of hof_eligible that precede the call of compute_score
HofGates(name, induction_year, inducted) ==
  LET w == wrestlers[name]
      total == w.wins + w.losses + w.draws
      mr == match_results(name)
      last_fight == Max({0} \cup {mr[i].year : i \in DOMAIN mr})
  IN  /\ name \notin inducted
      /\ name \in ppv_wrestlers
      /\ total # 0
      /\ ~(last_fight > induction_year - HOF_RETIREMENT_YEARS)
      /\ WinCount(w)
      /\ ~FLt(Frac(w.wins, total), HOF_MIN_WIN_PCT)
      /\ held_major(name)

\* variant: the eligible wrestlers are left in the order of db.wrestlers
hof_eligible_Unsorted(induction_year, inducted) ==
  CHOOSE eligible \in
    UNION {{SelectSeq([k \in DOMAIN names |->
                         [name |-> names[k], score |-> scores[names[k]]]],
                      LAMBDA e : ~FLt(e.score, Whole(HOF_MIN_SCORE))) :
              scores \in {[name \in Range(names) |->
                             compute_score(name, induction_year, TRUE).score]}} :
           names \in {SelectSeq(WrestlerNames,
                                LAMBDA name : HofGates(name, induction_year, inducted))}} :
    TRUE

\* hof_eligible(db, cache, induction_year, already_inducted); the scores
\* are bound as a value, so that each is computed once
hof_eligible(induction_year, inducted) ==
  CHOOSE eligible \in
    UNION {{SortByScore(SelectSeq([k \in DOMAIN names |->
                                     [name |-> names[k], score |-> scores[names[k]]]],
                                  LAMBDA e : ~FLt(e.score, Whole(HOF_MIN_SCORE)))) :
              scores \in {[name \in Range(names) |->
                             compute_score(name, induction_year, TRUE).score]}} :
           names \in {SelectSeq(WrestlerNames,
                                LAMBDA name : HofGates(name, induction_year, inducted))}} :
    TRUE

\* variant: every eligible wrestler of the year is marked as inducted
HofYear_MarksEligible ==
  /\ pc = "ready"
  /\ cache.all_years # {}
  /\ LET first_year == Min(cache.all_years) + HOF_RETIREMENT_YEARS + 1
         last_year == Max(cache.all_years)
         y == IF year = 0 THEN first_year ELSE year + 1
     IN  /\ y <= last_year
         /\ year' = y
         /\ \E elig \in {hof_eligible(y, already_inducted)} :
               \E inductees \in {Take(elig, HOF_MAX_PER_YEAR)} :
                  /\ hof_classes' = IF inductees # <<>>
                                    THEN (y :> [i \in DOMAIN inductees |-> inductees[i].name]) @@ hof_classes
                                    ELSE hof_classes
                  /\ already_inducted' = already_inducted \cup {elig[i].name : i \in DOMAIN elig}
         /\ pc' = IF y = last_year THEN "returned" ELSE pc
  /\ UNCHANGED <<html, events, wrestlers, championships, vacancies, pos, run, firstRun,
                 wiki, ppv_wrestlers, cache, ret, men_woty, women_woty, yearly_men, yearly_women>>

\* one iteration of `for year in range(first_year, last_year + 1)` of
\* compute_hof_classes; the function returns after the last one
HofYear ==
  /\ pc = "ready"
  /\ cache.all_years # {}
  /\ LET first_year == Min(cache.all_years) + HOF_RETIREMENT_YEARS + 1
         last_year == Max(cache.all_years)
         y == IF year = 0 THEN first_year ELSE year + 1
     IN  /\ y <= last_year
         /\ year' = y
         /\ \E inductees \in {Take(hof_eligible(y, already_inducted), HOF_MAX_PER_YEAR)} :
               /\ hof_classes' = IF inductees # <<>>
                                 THEN (y :> [i \in DOMAIN inductees |-> inductees[i].name]) @@ hof_classes
                                 ELSE hof_classes
               /\ already_inducted' = already_inducted \cup {inductees[i].name : i \in DOMAIN inductees}
         /\ pc' = IF y = last_year THEN "returned" ELSE pc
  /\ UNCHANGED <<html, events, wrestlers, championships, vacancies, pos, run, firstRun,
                 wiki, ppv_wrestlers, cache, ret, men_woty, women_woty, yearly_men, yearly_women>>

\* compute_hof_classes when the ledger spans too few years for a class
HofNoYear ==
  /\ pc = "ready"
  /\ year = 0
  /\ \/ cache.all_years = {}
     \/ Min(cache.all_years) + HOF_RETIREMENT_YEARS + 1 > Max(cache.all_years)
  /\ pc' = "returned"
  /\ UNCHANGED <<html, events, wrestlers, championships, vacancies, pos, run, firstRun,
                 wiki, ppv_wrestlers, cache, ret, year, men_woty, women_woty,
                 yearly_men, yearly_women, hof_classes, already_inducted>>

(***************************************************************************)
(* Specification of the Hall of Fame: in 1970 A wins the WWF title from    *)
(* J and defends it 13 times; up to MaxRivals rivals in turn take the      *)
(* title and defend it 14 times; A may win once more, in 1970 or in 1972;  *)
(* W may take the title on weekly television and defend it there; a card   *)
(* of X against Y closes the ledger in 1975 or later; every titleholder    *)
(* may have won one Open.                                                  *)
(***************************************************************************)
MaxRivals == 3
MaxHofYears == 2

Rivals == <<"B", "C", "D", "E", "F">>

\* a title win over the holder, then 14 defenses against J
Reign(name, holder, defenses) ==
  <<Row(name, "def.", holder, "Pinfall", "WWF Heavyweight title")>>
  \o [i \in 1..defenses |-> Row(name, "def.", "J", "Pinfall", "WWF Heavyweight title")]

HofLog(m, late, last) ==
  <<Card(SlotName(1), SlotDate(1), Reign("A", "J", 13))>>
  \o [k \in 1..m |-> Card(SlotName(k + 1), SlotDate(k + 1),
                          Reign(Rivals[k], IF k = 1 THEN "A" ELSE Rivals[k - 1], 14))]
  \o CardIf("Late", Date("B d, Y", late, 11, 1),
            IF late = 0 THEN <<>> ELSE <<Row("A", "def.", "J", "Decision", "")>>)
  \o <<Card("Last", Date("B d, Y", last, 1, 1), <<Row("X", "def.", "Y", "Decision", "")>>)>>

\* the weekly list: empty, or W's reign, taken from the last PPV titleholder
WeeklyLogs(m) ==
  {<<>>,
   <<Card("Live TV", Date("B d, Y", 1970, 12, 1),
          Reign("W", IF m = 0 THEN "A" ELSE Rivals[m], 14))>>}

OpenWinners ==
  {<<>>,
   (1970 :> "A") @@ (1971 :> "B") @@ (1972 :> "C") @@ (1973 :> "D") @@ (1974 :> "W")
   @@ (1975 :> "E") @@ (1976 :> "F")}

InitHof ==
  /\ \E m \in 0..MaxRivals, late \in {0, 1970, 1972}, last \in 1975..(1975 + MaxHofYears) :
        html \in [comments : {<<>>}, details : {HofLog(m, late, last)}, weekly : WeeklyLogs(m)]
  /\ wiki \in OpenWinners
  /\ P4PStart

NextHof ==
  \/ ParseVacancyComments
  \/ P4PParseRow
  \/ P4PSortEvents
  \/ ReprocessClear
  \/ ReprocessMatch
  \/ ProcessVacancies
  \/ CalculateDays
  \/ BuildCaches
  \/ HofYear
  \/ HofNoYear

SpecHof == InitHof /\ [][NextHof]_vars

(***************************************************************************)
(* C18. In compute_hof_classes no name appears in more than one class nor  *)
(* twice in a class: at every step of the year loop already_inducted is    *)
(* the union of the classes produced so far, and a new class is disjoint   *)
(* from the names inducted before it.                                      *)
(***************************************************************************)
Inducted(classes) == UNION {Range(classes[y]) : y \in DOMAIN classes}

C18_NoRepeatInduction ==
  /\ already_inducted = Inducted(hof_classes)
  /\ \A y \in DOMAIN hof_classes :
        /\ \A i, j \in DOMAIN hof_classes[y] : hof_classes[y][i] = hof_classes[y][j] => i = j
        /\ \A z \in DOMAIN hof_classes : z # y => Range(hof_classes[y]) \cap Range(hof_classes[z]) = {}

\* a full class is followed, a year later, by a class of the wrestler left out
C18_Witness ==
  /\ pc = "returned"
  /\ DOMAIN hof_classes = {1976, 1977}
  /\ Len(hof_classes[1976]) = HOF_MAX_PER_YEAR
  /\ hof_classes[1977] = <<"A">>

(***************************************************************************)
(* C19. For every induction year Y from the earliest ledger year +         *)
(* HOF_RETIREMENT_YEARS + 1 to the latest ledger year, the class of Y is   *)
(* exactly the first HOF_MAX_PER_YEAR names, in descending GOAT-score      *)
(* order, of the wrestlers not yet inducted that meet all criteria (career *)
(* wins >= HOF_MIN_WINS, win pct >= HOF_MIN_WIN_PCT, a reign in a major    *)
(* org, last fight <= Y - HOF_RETIREMENT_YEARS, GOAT score as of Y >=      *)
(* HOF_MIN_SCORE); no class has more than HOF_MAX_PER_YEAR members and no  *)
(* class exists for a year outside that range.  As stated, the criteria do *)
(* not include an appearance on a PPV card; the amended statement adds it. *)
(***************************************************************************)
\* the years with a card, and the wrestlers with a bout, counted on the ledger
LedgerYears == {year_of(events[e].date) : e \in 1..Len(events)} \ {0}

Fighters ==
  UNION {UNION {{events[e].matches[i].fighter1, events[e].matches[i].fighter2} :
                  i \in 1..Len(events[e].matches)} : e \in 1..Len(events)}

\* the bouts of name on the cards accepted by keep, as <<card, row>>
BoutsOf(name, keep(_)) ==
  {p \in UNION {{<<e, i>> : i \in 1..Len(events[e].matches)} : e \in 1..Len(events)} :
     /\ keep(events[p[1]])
     /\ name \in {events[p[1]].matches[p[2]].fighter1, events[p[1]].matches[p[2]].fighter2}}

AnyCard(e) == TRUE

PPVCard(e) == e.name # "Live TV"

\* the criteria of the claim other than the score, counted on the ledger
MeetsRecordCriteria(name, y) ==
  LET bouts == BoutsOf(name, AnyCard)
      won == Cardinality({p \in bouts : events[p[1]].matches[p[2]].winner = name})
      decided == Cardinality({p \in bouts : \/ events[p[1]].matches[p[2]].is_draw
                                            \/ events[p[1]].matches[p[2]].winner # ""})
  IN  /\ won >= HOF_MIN_WINS
      /\ decided > 0
      /\ FLe(HOF_MIN_WIN_PCT, Frac(won, decided))
      /\ \E l \in Lines : l[1] \in MAJOR_ORGS /\ \E i \in 1..Len(Reigns(l)) : Reigns(l)[i].champion = name
      /\ \A p \in bouts : year_of(events[p[1]].date) <= y - HOF_RETIREMENT_YEARS

\* the class of year y is the top of the wrestlers of pool that meet the criteria
ClassIsTop(y, pool) ==
  LET before == UNION {Range(hof_classes[z]) : z \in {x \in DOMAIN hof_classes : x < y}}
      class == IF y \in DOMAIN hof_classes THEN hof_classes[y] ELSE <<>>
  IN  \A score \in {[name \in {n \in pool \ before : MeetsRecordCriteria(n, y)} |->
                       compute_score(name, y, TRUE).score]} :
         LET eligible == {name \in DOMAIN score : FLe(Whole(HOF_MIN_SCORE), score[name])}
         IN  /\ Range(class) \subseteq eligible
             /\ Len(class) = (IF Cardinality(eligible) < HOF_MAX_PER_YEAR
                              THEN Cardinality(eligible) ELSE HOF_MAX_PER_YEAR)
             /\ \A i, j \in DOMAIN class : i < j => FLt(score[class[j]], score[class[i]])
                                                    \/ score[class[j]] = score[class[i]]
             /\ \A i \in DOMAIN class : \A name \in eligible \ Range(class) :
                   FLe(score[name], score[class[i]])

\* the induction years the loop has been through
YearsDone ==
  IF year = 0 THEN {} ELSE (Min(LedgerYears) + HOF_RETIREMENT_YEARS + 1)..year

ClassesInRange ==
  \A y \in DOMAIN hof_classes :
     /\ y \in YearsDone
     /\ y <= Max(LedgerYears)
     /\ Len(hof_classes[y]) <= HOF_MAX_PER_YEAR

C19_ClassIsTopEligible ==
  /\ ClassesInRange
  /\ \A y \in YearsDone : ClassIsTop(y, Fighters)

C19_ClassIsTopEligibleOnPPV ==
  /\ ClassesInRange
  /\ \A y \in YearsDone : ClassIsTop(y, {name \in Fighters : BoutsOf(name, PPVCard) # {}})

\* four PPV wrestlers and W, seen on weekly television only, meet the criteria
\* in the first induction year; the class takes three, in descending order
C19_Witness ==
  /\ pc = "returned"
  /\ 1976 \in DOMAIN hof_classes
  /\ Len(hof_classes[1976]) = HOF_MAX_PER_YEAR
  /\ FLt(compute_score(hof_classes[1976][3], 1976, TRUE).score,
         compute_score(hof_classes[1976][1], 1976, TRUE).score)
  /\ 1977 \in DOMAIN hof_classes
  /\ MeetsRecordCriteria("W", 1976)
  /\ BoutsOf("W", PPVCard) = {}
  /\ FLe(Whole(HOF_MIN_SCORE), compute_score("W", 1976, TRUE).score)

(***************************************************************************)
(* Specification of a recorded win: the ledger is that of the Hall of      *)
(* Fame without A's fifteenth win; once the classes are computed the win   *)
(* is recorded on the page, dated 1970, 1972 or the last year of the       *)
(* ledger, and the program is run again over the whole page.               *)
(***************************************************************************)
InitRecord ==
  /\ \E m \in 0..MaxRivals, last \in 1975..(1975 + MaxHofYears) :
        html = [comments |-> <<>>, details |-> HofLog(m, 0, last), weekly |-> <<>>]
  /\ wiki \in OpenWinners
  /\ P4PStart

\* the names and dates of a list of cards
CardsOf(cards) == [k \in DOMAIN cards |-> <<cards[k].name, cards[k].date>>]

\* the card "Late" is added to the page that was read, and main runs again:
\* the classes of the first run are kept in ret
RecordWin ==
  /\ pc = "returned"
  /\ run = 1
  /\ \E m \in 0..MaxRivals, last \in 1975..(1975 + MaxHofYears) :
        /\ CardsOf(HofLog(m, 0, last)) = CardsOf(events)
        /\ \E won \in {1970, 1972, last} :
              html' = [comments |-> <<>>, details |-> HofLog(m, won, last), weekly |-> <<>>]
  /\ ret' = [hof_classes |-> hof_classes]
  /\ run' = 2
  /\ events' = <<>>
  /\ wrestlers' = <<>>
  /\ championships' = NoReigns
  /\ vacancies' = <<>>
  /\ pc' = "parse_vacancy_comments"
  /\ pos' = 0
  /\ ppv_wrestlers' = {}
  /\ cache' = <<>>
  /\ year' = 0
  /\ hof_classes' = <<>>
  /\ already_inducted' = {}
  /\ UNCHANGED <<firstRun, wiki, men_woty, women_woty, yearly_men, yearly_women>>

NextRecord ==
  \/ ParseVacancyComments
  \/ P4PParseRow
  \/ P4PSortEvents
  \/ ReprocessClear
  \/ ReprocessMatch
  \/ ProcessVacancies
  \/ CalculateDays
  \/ BuildCaches
  \/ HofYear
  \/ HofNoYear
  \/ RecordWin

SpecRecord == InitRecord /\ [][NextRecord]_vars

(***************************************************************************)
(* C20. With HOF_MIN_WINS = 15, a wrestler with 14 career wins as of       *)
(* induction year Y is not eligible in Y, and becomes eligible in Y + 1    *)
(* once a 15th win is recorded, all other criteria being met: the win      *)
(* count gate is evaluated against the wins the wrestler has at each       *)
(* induction year.                                                         *)
(***************************************************************************)
\* the wins of name on the cards accepted by keep, counted on the ledger
WinsOn(name, keep(_)) ==
  Cardinality({p \in BoutsOf(name, keep) : events[p[1]].matches[p[2]].winner = name})

\* the cards of the page before the win was recorded
PriorCard(e) == e.name # "Late"

\* every member of a class has HOF_MIN_WINS wins on the cards dated through
\* the year of the class
ClassHasWins ==
  \A y \in DOMAIN hof_classes : \A i \in DOMAIN hof_classes[y] :
     WinsOn(hof_classes[y][i], LAMBDA e : year_of(e.date) <= y) >= HOF_MIN_WINS

\* name is inducted in year y unless the class is taken by HOF_MAX_PER_YEAR
\* wrestlers with scores at least as high
InClassOrOutscored(name, y) ==
  LET class == IF y \in DOMAIN hof_classes THEN hof_classes[y] ELSE <<>>
  IN  \/ name \in Range(class)
      \/ /\ Len(class) = HOF_MAX_PER_YEAR
         /\ \E s \in {compute_score(name, y, TRUE).score} :
               \A i \in DOMAIN class : FLe(s, compute_score(class[i], y, TRUE).score)

C20_WinCountGate ==
  /\ ClassHasWins
  /\ (run = 2 /\ pc \in {"ready", "returned"}) =>
        \A name \in {n \in Fighters : WinsOn(n, PriorCard) = HOF_MIN_WINS - 1} :
           /\ name \notin Inducted(ret.hof_classes)
           /\ \A y \in YearsDone :
                 ( /\ WinsOn(name, LAMBDA e : year_of(e.date) <= y) >= HOF_MIN_WINS
                   /\ MeetsRecordCriteria(name, y)
                   /\ BoutsOf(name, PPVCard) # {}
                   /\ \A z \in DOMAIN hof_classes : z < y => name \notin Range(hof_classes[z])
                   /\ FLe(Whole(HOF_MIN_SCORE), compute_score(name, y, TRUE).score) )
                 => InClassOrOutscored(name, y)

\* A had 14 wins when the classes of 1976 and 1977 were first computed and
\* was in neither; with the win of 1972 recorded A is in the class of 1977
C20_Witness ==
  /\ run = 2
  /\ pc = "returned"
  /\ WinsOn("A", PriorCard) = HOF_MIN_WINS - 1
  /\ WinsOn("A", AnyCard) = HOF_MIN_WINS
  /\ ret.hof_classes # <<>>
  /\ "A" \notin Inducted(ret.hof_classes)
  /\ Max(LedgerYears) = 1977
  /\ 1976 \notin DOMAIN hof_classes \/ "A" \notin Range(hof_classes[1976])
  /\ 1977 \in DOMAIN hof_classes
  /\ "A" \in Range(hof_classes[1977])

(***************************************************************************)
(* Specification of the score as of a year: the GOAT score of A or B is    *)
(* computed for a year, as hof_eligible does; then one card dated 1975 is  *)
(* added to the page (A beats J without a title, A beats J for the title,  *)
(* or B beats A for the title), the program is run again and the same      *)
(* score is computed.                                                      *)
(***************************************************************************)
AsOfLogs == {ScoreLog(t, d, w, 0, 0, 0) : t \in 0..MaxSwitches, d \in 0..1, w \in 0..1}

LaterRows ==
  {Row("A", "def.", "J", "Decision", ""),
   Row("A", "def.", "J", "Pinfall", "WWF Heavyweight title"),
   Row("B", "def.", "A", "Pinfall", "WWF Heavyweight title")}

InitAsOf ==
  /\ html \in [comments : {<<>>}, details : AsOfLogs \ {<<>>}, weekly : {<<>>}]
  /\ wiki \in OpenData
  /\ P4PStart

\* hof_eligible: score = compute_score(db, cache, name, induction_year,
\* goat_mode=True); the second run asks for the score the first run asked for
HofScore ==
  /\ pc = "ready"
  /\ \/ /\ run = 1
        /\ \E name \in {"A", "B"}, induction_year \in 1971..1974 :
              ret' = [name |-> name, ranking_year |-> induction_year, goat_mode |-> TRUE,
                      out |-> compute_score(name, induction_year, TRUE)]
     \/ /\ run = 2
        /\ ret' = [name |-> ret.name, ranking_year |-> ret.ranking_year, goat_mode |-> TRUE,
                   out |-> compute_score(ret.name, ret.ranking_year, TRUE), before |-> ret.out]
  /\ pc' = "returned"
  /\ UNCHANGED <<html, events, wrestlers, championships, vacancies, pos, run, firstRun,
                 wiki, ppv_wrestlers, cache, year, men_woty, women_woty,
                 yearly_men, yearly_women, hof_classes, already_inducted>>

\* a card dated after the year of the score is added to the page that was
\* read, and main runs again
LaterCard ==
  /\ pc = "returned"
  /\ run = 1
  /\ \E page \in AsOfLogs, row \in LaterRows :
        /\ CardsOf(page) = CardsOf(events)
        /\ \A k \in DOMAIN page : Len(page[k].rows) = Len(events[k].matches)
        /\ html' = [comments |-> <<>>,
                    details |-> page \o <<Card("Late", Date("B d, Y", 1975, 3, 1), <<row>>)>>,
                    weekly |-> <<>>]
  /\ run' = 2
  /\ events' = <<>>
  /\ wrestlers' = <<>>
  /\ championships' = NoReigns
  /\ vacancies' = <<>>
  /\ pc' = "parse_vacancy_comments"
  /\ pos' = 0
  /\ ppv_wrestlers' = {}
  /\ cache' = <<>>
  /\ UNCHANGED <<firstRun, wiki, ret, year, men_woty, women_woty, yearly_men, yearly_women,
                 hof_classes, already_inducted>>

NextAsOf ==
  \/ ParseVacancyComments
  \/ P4PParseRow
  \/ P4PSortEvents
  \/ ReprocessClear
  \/ ReprocessMatch
  \/ ProcessVacancies
  \/ CalculateDays
  \/ BuildCaches
  \/ HofScore
  \/ LaterCard

SpecAsOf == InitAsOf /\ [][NextAsOf]_vars

(***************************************************************************)
(* C21. The GOAT score used for Hall-of-Fame eligibility is evaluated as   *)
(* of the induction year Y: for two ledgers with the same matches, reigns  *)
(* and tournament results through Y that differ only in events dated after *)
(* Y, compute_score(name, Y, goat_mode=True) returns the same value.       *)
(***************************************************************************)
C21_ScoreAsOfYear ==
  (pc = "returned" /\ run = 2) => ret.out.score = ret.before.score

(***************************************************************************)
(* C23. In yearly mode defenses_this_yr counts exactly the wrestler's wins *)
(* of the ranking year that took place while the wrestler was holding a    *)
(* title, inside one of the wrestler's own reigns; a win by a former       *)
(* champion who had already lost or vacated every title before the match   *)
(* is not counted as a defense.                                            *)
(***************************************************************************)
\* the day of match i of the ledger falls inside reign p: after the day the
\* reign started, and not after the day the next reign of the line started
\* or the reign was vacated
InsideReign(i, p) ==
  LET day == parse_date(AllMatches(events)[i].date)
      reign == ReignAt(p)
      reigns == championships[p[1]]
  IN  /\ parse_date(reign.date) < day
      /\ p[2] < Len(reigns) => day <= parse_date(reigns[p[2] + 1].date)
      /\ reign.vacancy_message # "" => day <= parse_date(reign.date) + DaysOr0(reign)

\* the wins of name in year y won while holding a title
WinsAsChampion(name, y) ==
  {i \in 1..Len(AllMatches(events)) :
     /\ AllMatches(events)[i].winner = name
     /\ year_of(AllMatches(events)[i].date) = y
     /\ \E p \in OwnReigns(name) : InsideReign(i, p)}

C23_DefensesWhileChampion ==
  (ScoreReturned /\ ~ret.goat_mode /\ "defenses_this_yr" \in DOMAIN ret.out) =>
     ret.out.defenses_this_yr = Cardinality(WinsAsChampion(ret.name, ret.ranking_year))

(***************************************************************************)
(* C24. In GOAT mode the quality-wins score is monotone in wins: for any   *)
(* career, adding one more win, against any opponent and by any method,    *)
(* never lowers quality_wins_score = min(sum(rating * mult) /               *)
(* (100 * min(max(wins, 1), 30)), 1) * 100.                                *)
(***************************************************************************)
\* the career of name through year y is the career through y - 1 and one
\* more bout, a win
OneMoreWin(name, y) ==
  /\ BoutsThrough(name, y - 1) # {}
  /\ Cardinality(BoutsThrough(name, y)) = Cardinality(BoutsThrough(name, y - 1)) + 1
  /\ WinsThrough(name, y) = WinsThrough(name, y - 1) + 1

C24_QualityMonotoneInWins ==
  (ScoreReturned /\ ret.goat_mode /\ OneMoreWin(ret.name, ret.ranking_year)) =>
     FLe(compute_score(ret.name, ret.ranking_year - 1, TRUE).quality_wins_score,
         ret.out.quality_wins_score)

(***************************************************************************)
(* C25. In the replay, a title match changes a line's state (appends a     *)
(* Reign or increments the open reign's defenses) only when the champion   *)
(* of the line's open reign is one of the two fighters of that match; a    *)
(* title match between two wrestlers neither of whom is the current        *)
(* champion of a non-empty line leaves that line's reigns unchanged.  As   *)
(* amended: such a match, when it has a winner, always acts on the line:   *)
(* decided by Disqualification or Count Out it adds a defense to the last  *)
(* reign, decided otherwise it appends a reign of the winner.              *)
(***************************************************************************)
\* the replay is about to process a match for line l in which the champion
\* of the last reign of l does not take part
ChampionAbsent(l) ==
  /\ ReplayStep
  /\ l \in TitleLinesOf(CurrentMatch.notes)
  /\ championships[l] # <<>>
  /\ LastReign(l).champion \notin {CurrentMatch.fighter1, CurrentMatch.fighter2}

C25_ChampionAbsentNoChange ==
  [][\A l \in Lines : ChampionAbsent(l) => championships'[l] = championships[l]]_vars

C25_ChampionAbsentStillActs ==
  [][\A l \in Lines : (ChampionAbsent(l) /\ CurrentMatch.winner # "") =>
        LET old == championships[l]
            new == championships'[l]
            n == Len(old)
            m == CurrentMatch
        IN  IF m.method \in NotEligible
            THEN /\ Len(new) = n
                 /\ SubSeq(new, 1, n - 1) = SubSeq(old, 1, n - 1)
                 /\ new[n].champion = old[n].champion
                 /\ new[n].defenses = old[n].defenses + 1
            ELSE /\ Len(new) = n + 1
                 /\ SubSeq(new, 1, n) = old
                 /\ new[n + 1].champion = m.winner
                 /\ new[n + 1].defenses = 0
                 /\ new[n + 1].date = m.date]_vars

\* C held the title while A and B met for it twice: the Disqualification
\* win was counted as a defense of C, the Pinfall win opened a reign
C25_Witness ==
  /\ pc = "replay"
  /\ pos > 3
  /\ Len(Reigns(WWFHeavy)) = 2
  /\ Reigns(WWFHeavy)[1].champion = "C"
  /\ Reigns(WWFHeavy)[1].defenses = 1
  /\ "C" \notin {AllMatches(events)[pos - 2].fighter1, AllMatches(events)[pos - 2].fighter2}
  /\ AllMatches(events)[pos - 2].method = "Disqualification"
  /\ "C" \notin {PreviousMatch.fighter1, PreviousMatch.fighter2}
  /\ PreviousMatch.method = "Pinfall"
  /\ LastReign(WWFHeavy).champion = PreviousMatch.winner

(***************************************************************************)
(* C26. Championship history is a strict override in opponent_rating: for  *)
(* every opponent record and year, the rating is >= 80 if and only if the  *)
(* opponent started a reign in some title line in a year <= that year; no  *)
(* opponent without title history can reach 80.                            *)
(***************************************************************************)
C26_ChampionOverride ==
  (pc = "returned" /\ "rating" \in DOMAIN ret) =>
     (FLe(Whole(80), ret.rating) <=> HeldTitleBy(ret.opp_name, ret.fight_year))

\* the best record without a title, all wins over five decisions or more,
\* is rated 79
C26_Witness ==
  /\ pc = "returned"
  /\ "rating" \in DOMAIN ret
  /\ ~HeldTitleBy(ret.opp_name, ret.fight_year)
  /\ WinsThrough(ret.opp_name, ret.fight_year) >= 5
  /\ LossesThrough(ret.opp_name, ret.fight_year) = 0
  /\ RatingIs(79, 1)

(***************************************************************************)
(* titles_at_year: the titles shown for a wrestler in a year of the        *)
(* rankings.                                                               *)
(***************************************************************************)
\* label = '<i>The Ring</i>' if org == 'ring' else org.upper()
OrgLabel(org) ==
  CASE org = "ring" -> "<i>The Ring</i>"
    [] org = "wwf" -> "WWF"
    [] org = "wwo" -> "WWO"
    [] org = "iwb" -> "IWB"

\* weight.capitalize()
Capitalize(weight) ==
  CASE weight = "heavyweight" -> "Heavyweight"
    [] weight = "bridgerweight" -> "Bridgerweight"
    [] weight = "middleweight" -> "Middleweight"
    [] weight = "welterweight" -> "Welterweight"
    [] weight = "lightweight" -> "Lightweight"
    [] weight = "featherweight" -> "Featherweight"

\* for org in ['wwf', 'wwo', 'iwb', 'ring']: for weight in WEIGHT_ORDER
LineOrder ==
  [k \in 1..(Len(orgs) * Len(WEIGHT_ORDER)) |->
     <<orgs[((k - 1) \div Len(WEIGHT_ORDER)) + 1], WEIGHT_ORDER[((k - 1) % Len(WEIGHT_ORDER)) + 1]>>]

\* ' <br> '.join(parts)
JoinBr(parts) ==
  LET RECURSIVE join(_)
      join(k) == IF k = 0 THEN "" ELSE IF k = 1 THEN parts[1] ELSE join(k - 1) \o " <br> " \o parts[k]
  IN  join(Len(parts))

\* titles_at_year(db, name, year, cache): a line is listed once, whatever the
\* number of reigns of name on it that pass the test
titles_at_year(name, in_year) ==
  LET held(l) == \E p \in ReignsStartedBy(name, in_year) : p[1] = l /\ end_year(p) >= in_year
      parts == [k \in DOMAIN SelectSeq(LineOrder, held) |->
                  OrgLabel(SelectSeq(LineOrder, held)[k][1]) \o " "
                    \o Capitalize(SelectSeq(LineOrder, held)[k][2])]
  IN  JoinBr(IF cache # <<>> /\ in_year \in open_wins(name) THEN Append(parts, "The Open") ELSE parts)

(***************************************************************************)
(* Specification of the yearly titles with vacancies: the page of          *)
(* SpecScore's title matches between A and B, and up to MaxVacancies       *)
(* comments that vacate A's title in December 1970; A may beat J without a *)
(* title in December 1970 and in 1975.                                     *)
(***************************************************************************)
VacatedLogs == {ScoreLog(t, 0, w, 0, 0, late) : t \in 0..MaxSwitches, w \in 0..1, late \in 0..1}

InitVacated ==
  /\ html \in [comments : VacancyLogs, details : VacatedLogs, weekly : {<<>>}]
  /\ wiki \in OpenData
  /\ P4PStart

\* rank_for_year: titles = titles_at_year(db, name, year, cache)
TitlesAtYear ==
  /\ pc = "ready"
  /\ \E name \in {"A", "B"}, y \in 1969..1975 :
        ret' = [name |-> name, year |-> y, titles |-> titles_at_year(name, y)]
  /\ pc' = "returned"
  /\ UNCHANGED <<html, events, wrestlers, championships, vacancies, pos, run, firstRun,
                 wiki, ppv_wrestlers, cache, year, men_woty, women_woty,
                 yearly_men, yearly_women, hof_classes, already_inducted>>

NextVacated ==
  \/ ParseVacancyComments
  \/ P4PParseRow
  \/ P4PSortEvents
  \/ ReprocessClear
  \/ ReprocessMatch
  \/ ProcessVacancies
  \/ CalculateDays
  \/ BuildCaches
  \/ ComputeScore
  \/ TitlesAtYear

SpecVacated == InitVacated /\ [][NextVacated]_vars

\* the year of the vacancy that closed reign p: the last comment that names
\* the line and the champion of the reign
VacancyYear(p) ==
  LET named == {i \in DOMAIN vacancies :
                  /\ <<vacancies[i].org, vacancies[i].weight>> = p[1]
                  /\ vacancies[i].champion = ReignAt(p).champion}
  IN  vacancies[CHOOSE i \in named : \A j \in named : j <= i].date.y

\* reign p was closed by a vacancy in a year before y
VacatedBefore(p, y) == ReignAt(p).vacancy_message # "" /\ VacancyYear(p) < y

\* the reigns of name held at some time in year y
HeldInYear(name, y) ==
  {p \in ReignsStartedBy(name, y) : end_year(p) >= y /\ ~VacatedBefore(p, y)}

\* the titles of name in year y, in the order and the text of the page
TitlesHeldIn(name, y) ==
  LET held(l) == \E p \in HeldInYear(name, y) : p[1] = l
      lines == SelectSeq(LineOrder, held)
      parts == [k \in DOMAIN lines |-> OrgLabel(lines[k][1]) \o " " \o Capitalize(lines[k][2])]
  IN  JoinBr(IF y \in open_wins(name) THEN Append(parts, "The Open") ELSE parts)

(***************************************************************************)
(* C27. A reign that was closed by a vacancy is not counted as held in any *)
(* year after the year of the vacancy: titles_at_year lists exactly the    *)
(* titles of the reigns held in the year, and the yearly score counts      *)
(* exactly those reigns in titles_held_yr and, when they began in an       *)
(* earlier year, in titles_entering_yr, also when the vacated reign is the *)
(* last reign of its line.                                                 *)
(***************************************************************************)
C27_VacatedReignNotHeld ==
  /\ (pc = "returned" /\ "titles" \in DOMAIN ret) =>
        ret.titles = TitlesHeldIn(ret.name, ret.year)
  /\ (ScoreReturned /\ ~ret.goat_mode /\ "titles_held_yr" \in DOMAIN ret.out) =>
        /\ ret.out.titles_held_yr = Cardinality(HeldInYear(ret.name, ret.ranking_year))
        /\ ret.out.titles_entering_yr =
             Cardinality({p \in HeldInYear(ret.name, ret.ranking_year) :
                            year_of(ReignAt(p).date) < ret.ranking_year})

(***************************************************************************)
(* The two passes over the title matches.  After the sort and before the   *)
(* replay clears them, the title lines hold what record_match built at     *)
(* ingestion, card by card in file order.                                  *)
(***************************************************************************)
\* the cards were ingested in chronological order: the stable sort left
\* every card of the file in its place
IngestedInOrder == \A i \in DOMAIN events : events[i].name = SlotName(i)

\* reprocess_championships_chronologically over the matches ms, from empty lines
RECURSIVE Rederived(_)
Rederived(ms) ==
  IF ms = <<>> THEN NoReigns
  ELSE ReprocessOne(Rederived(SubSeq(ms, 1, Len(ms) - 1)), ms[Len(ms)])

\* champion, start date, start event and defenses of every reign of a line
ReignCore(reigns) ==
  [i \in DOMAIN reigns |->
     [champion |-> reigns[i].champion, date |-> reigns[i].date,
      event |-> reigns[i].event, defenses |-> reigns[i].defenses]]

(***************************************************************************)
(* C28. When the cards are ingested in chronological order, the reigns     *)
(* that check_championship_change built at ingestion have, in every line,  *)
(* the champions, start dates, start events and defenses of the reigns     *)
(* that reprocess_championships_chronologically derives from the same      *)
(* matches.                                                                *)
(***************************************************************************)
C28_PassesAgree ==
  (pc = "reprocess" /\ run = 1 /\ IngestedInOrder) =>
     \A rederived \in {Rederived(AllMatches(events))} :
        \A l \in Lines : ReignCore(championships[l]) = ReignCore(rederived[l])

\* three cards in date order were ingested: a title change, a defense that
\* the champion did not win, and a second title change
C28_Witness ==
  /\ pc = "reprocess"
  /\ run = 1
  /\ IngestedInOrder
  /\ Len(events) = MaxEvents
  /\ Len(Reigns(WWFHeavy)) >= 2
  /\ \E i \in 1..Len(Reigns(WWFHeavy)) : Reigns(WWFHeavy)[i].defenses >= 1
  /\ \E i \in 1..Len(AllMatches(events)) :
        /\ AllMatches(events)[i].method \in NotEligible
        /\ AllMatches(events)[i].winner # ""

(***************************************************************************)
(* C29. Induction does not starve.  A wrestler who passes every check of   *)
(* hof_eligible in induction year Y and is not in the class of Y passes    *)
(* every check in year Y + 1, with a GOAT score that is not lower; when    *)
(* the loop has been through Y + 1, the wrestler is in the class of Y + 1  *)
(* or that class is full; and when the loop has returned, the wrestler is  *)
(* in a class after Y or every class after Y is full.                      *)
(***************************************************************************)
ClassOf(y) == IF y \in DOMAIN hof_classes THEN hof_classes[y] ELSE <<>>

\* the names inducted in the years before y
InductedBefore(y) == UNION {Range(hof_classes[z]) : z \in {x \in DOMAIN hof_classes : x < y}}

\* name passed the checks of year y and the class of y was made without it
LeftOut(name, y) ==
  /\ name \notin Range(ClassOf(y))
  /\ HofGates(name, y, InductedBefore(y))
  /\ FLe(Whole(HOF_MIN_SCORE), compute_score(name, y, TRUE).score)

C29_NoStarvation ==
  \A y \in YearsDone : \A name \in DOMAIN wrestlers :
     LeftOut(name, y) =>
        /\ HofGates(name, y + 1, InductedBefore(y + 1))
        /\ FLe(compute_score(name, y, TRUE).score, compute_score(name, y + 1, TRUE).score)
        /\ (y + 1) \in YearsDone =>
              \/ name \in Range(ClassOf(y + 1))
              \/ Len(ClassOf(y + 1)) = HOF_MAX_PER_YEAR
        /\ pc = "returned" =>
              \/ \E z \in DOMAIN hof_classes : z > y /\ name \in Range(hof_classes[z])
              \/ \A z \in (y + 1)..Max(LedgerYears) : Len(ClassOf(z)) = HOF_MAX_PER_YEAR

\* four wrestlers passed the checks of 1976; the one left out of the full
\* class of 1976 is the class of 1977, and the ledger goes on to 1977
C29_Witness ==
  /\ pc = "returned"
  /\ year = 1977
  /\ \E name \in DOMAIN wrestlers :
        /\ LeftOut(name, 1976)
        /\ Len(ClassOf(1976)) = HOF_MAX_PER_YEAR
        /\ ClassOf(1977) = <<name>>

(***************************************************************************)
(* champ.py: the title history read from the PPV page.  Every row of the   *)
(* pages explored is a row of a singles match with all its columns, and    *)
(* the winner is the wrestler named first.                                 *)
(***************************************************************************)
\* champ.py's parse_date: "%B %d, %Y", then "%B %Y"
champ_parse_date(date_str) ==
  IF date_str.fmt = "B d, Y" /\ date_str.d \in 1..DaysInMonth(date_str.y, date_str.m)
  THEN Ordinal(date_str.y, date_str.m, date_str.d)
  ELSE IF date_str.fmt = "B Y"
       THEN Ordinal(date_str.y, date_str.m, 1)
       ELSE None

\* can_change of parse_ppv_title_history
champ_can_change(method) ==
  LET method_l == lower(chars(method))
  IN  \/ Contains(chars("pinfall"), method_l)
      \/ Contains(chars("submission"), method_l)
      \/ /\ ~Contains(chars("dq"), method_l)
         /\ ~Contains(chars("count out"), method_l)
         /\ ~Contains(chars("disqualification"), method_l)

\* the tests a row passes to enter raw
champ_title_win(row, org, weight) ==
  LET notes_l == lower(chars(row.notes))
  IN  /\ Contains(lower(chars(org)), notes_l)
      /\ \E kw \in {"title", "championship"} : Contains(chars(kw), notes_l)
      /\ \/ Contains(lower(chars(weight)), notes_l)
         \/ Contains(lower(chars(weight)), lower(chars(row.weight_class)))
      /\ row.result \in {"def.", "defeated", "def"}
      /\ champ_can_change(row.method)

\* the entries of raw, in page order: cards without a date that parses are skipped
RECURSIVE champ_raw(_, _, _)
champ_raw(page, org, weight) ==
  IF page = <<>> THEN <<>>
  ELSE LET card == page[Len(page)]
           wins == SelectSeq(card.rows, LAMBDA row : champ_title_win(row, org, weight))
       IN  champ_raw(SubSeq(page, 1, Len(page) - 1), org, weight)
           \o (IF champ_parse_date(card.date) = None THEN <<>>
               ELSE [i \in DOMAIN wins |->
                       [champion |-> wins[i].fighter1, date |-> champ_parse_date(card.date),
                        date_str |-> card.date, event |-> card.name]])

\* raw.sort(key=lambda x: x['date']): a stable sort
RECURSIVE champ_sort(_)
champ_sort(raw) ==
  IF raw = <<>> THEN <<>>
  ELSE LET sorted == champ_sort(SubSeq(raw, 1, Len(raw) - 1))
           ev == raw[Len(raw)]
           k == Cardinality({i \in DOMAIN sorted : sorted[i].date <= ev.date})
       IN  SubSeq(sorted, 1, k) \o <<ev>> \o SubSeq(sorted, k + 1, Len(sorted))

\* parse_ppv_title_history(ppv_path, org, weight): an entry is kept when its
\* champion differs from the champion of the entry kept before it
parse_ppv_title_history(page, org, weight) ==
  LET raw == champ_sort(champ_raw(page, org, weight))
      RECURSIVE dedup(_)
      dedup(n) ==
        IF n = 0 THEN <<>>
        ELSE LET history == dedup(n - 1)
             IN  IF history = <<>> \/ history[Len(history)].champion # raw[n].champion
                 THEN Append(history, raw[n])
                 ELSE history
  IN  dedup(Len(raw))

(***************************************************************************)
(* Specification of the two readers of the PPV page: champ.py reads the    *)
(* title history of a line from the page, and update.py ingests the same   *)
(* page and replays it.                                                    *)
(***************************************************************************)
HistoryLines == {<<"wwf", "heavyweight">>, <<"wwo", "heavyweight">>, <<"wwf", "middleweight">>}

InitHistory ==
  /\ html \in [comments : {<<>>}, details : ClassLogs \cup NotesLogs \cup DateLogs]
  /\ events = <<>>
  /\ wrestlers = <<>>
  /\ championships = NoReigns
  /\ vacancies = <<>>
  /\ pc = "parse_vacancy_comments"
  /\ pos = 0
  /\ run = 1
  /\ firstRun = NoReigns
  /\ P4PUnused

\* champ.py, main: ppv_history = parse_ppv_title_history(PPV_LIST, org, weight)
PPVHistory ==
  /\ pc = "parse_vacancy_comments"
  /\ DOMAIN ret = {}
  /\ \E l \in HistoryLines :
        ret' = [org |-> l[1], weight |-> l[2],
                ppv_history |-> parse_ppv_title_history(html.details, l[1], l[2])]
  /\ UNCHANGED <<html, events, wrestlers, championships, vacancies, pc, pos, run, firstRun,
                 wiki, ppv_wrestlers, cache, year, men_woty, women_woty,
                 yearly_men, yearly_women, hof_classes, already_inducted>>

NextHistory ==
  \/ PPVHistory
  \/ ParseVacancyComments
  \/ ParseMatchCard
  \/ SortEvents
  \/ ReprocessClear
  \/ ReprocessMatch
  \/ ProcessVacancies
  \/ CalculateDays

SpecHistory == InitHistory /\ [][NextHistory]_vars

(***************************************************************************)
(* C30. For a PPV-only page and a title line, the champions of the history *)
(* that parse_ppv_title_history returns are, in order, the champions of    *)
(* the reigns that reprocess_championships_chronologically derives for the *)
(* line, for every method class (Pinfall, Submission, Decision, DQ,        *)
(* Disqualification, Count Out and Countout).                              *)
(***************************************************************************)
C30_HistoryIsReplay ==
  (pc = "replay" /\ pos > Len(AllMatches(events)) /\ "ppv_history" \in DOMAIN ret) =>
     [i \in DOMAIN ret.ppv_history |-> ret.ppv_history[i].champion]
       = [i \in DOMAIN Reigns(<<ret.org, ret.weight>>) |-> Reigns(<<ret.org, ret.weight>>)[i].champion]

(***************************************************************************)
(* champ.py, main: a chain of weekly title changes is written to the       *)
(* weekly page.  The line is (wwf, Heavyweight) and the location           *)
(* preference is the USA, so that every block is a "Wrestling" show.       *)
(***************************************************************************)
MaxChain == 2

\* the days of a month tried for the dates typed in and for the dates drawn
DaysTried == {10, 20}

MonthsTried == 1..3

\* the PPV pages: title wins of A over B and of B over A, cards in date order
ChampPages ==
  {[k \in DOMAIN rs |-> Card(SlotName(k), SlotDate(k), <<rs[k]>>)] :
     rs \in SeqsUpTo(DateRows, MaxEvents)}

\* the dates of a chain and of the corrective match
ChangeDates == {Date("B d, Y", 1970, m, d) : m \in MonthsTried, d \in DaysTried}

WindowStarts == {Date("B d, Y", 1970, 1, 1), Date("B Y", 1970, 2, 0)}

\* get_all_wrestler_names: the names in the singles rows of the page
get_all_wrestler_names(page) ==
  UNION {UNION {{page[k].rows[i].fighter1, page[k].rows[i].fighter2} :
                  i \in DOMAIN page[k].rows} : k \in DOMAIN page}

\* format_date(dt) for the dates of the model
format_date(date_str) == Date("B d, Y", date_str.y, date_str.m, date_str.d)

\* the loop of step 8: each date typed in is accepted when it is after the
\* date before it and, with a deadline, before the next PPV
ChainAccepted(chain, window_start, next_ppv) ==
  \A i \in DOMAIN chain :
     /\ champ_parse_date(chain[i][2]) >
          (IF i = 1 THEN window_start ELSE champ_parse_date(chain[i - 1][2]))
     /\ next_ppv # None => champ_parse_date(chain[i][2]) < next_ppv

\* changes after step 8
ChainChanges(chain, holder) ==
  [i \in DOMAIN chain |->
     [winner |-> chain[i][1], loser |-> IF i = 1 THEN holder ELSE chain[i - 1][1],
      date |-> champ_parse_date(chain[i][2]), date_str |-> chain[i][2], auto |-> FALSE]]

\* the dates the corrective match can be given: a day of a month without
\* a change between auto_start and auto_end if there is such a month, else any
\* day from auto_start to auto_end
CorrectiveDates(auto_start, auto_end, changes) ==
  LET used_yms == {<<changes[i].date_str.y, changes[i].date_str.m>> : i \in DOMAIN changes}
      gap_months == {ym \in {1970} \X (1..12) :
                       /\ Ordinal(ym[1], ym[2], DaysInMonth(ym[1], ym[2])) >= auto_start
                       /\ Ordinal(ym[1], ym[2], 1) <= auto_end
                       /\ ym \notin used_yms}
  IN  {c \in ChangeDates :
         /\ champ_parse_date(c) \in auto_start..auto_end
         /\ gap_months # {} => <<c.y, c.m>> \in gap_months}

\* find_block_for_month: the first block of the show in the month with fewer
\* than 5 singles matches, or 0
find_block_for_month(content, y, m, show_name) ==
  LET found == {k \in DOMAIN content :
                  /\ content[k].name = show_name
                  /\ content[k].date.fmt = "B d, Y"
                  /\ content[k].date.y = y
                  /\ content[k].date.m = m
                  /\ Len(content[k].rows) < 5}
  IN  IF found = {} THEN 0 ELSE Min(found)

\* write_match_to_weekly: the row goes to the end of the block found, or to a
\* new block after the last block of the year dated on or before the match
write_match_to_weekly(content, change, show_name, method) ==
  LET row == Row(change.winner, "def.", change.loser, method, "WWF Heavyweight championship")
      k == find_block_for_month(content, change.date_str.y, change.date_str.m, show_name)
      before == {j \in DOMAIN content : champ_parse_date(content[j].date) <= change.date}
      insert_after == IF before = {} THEN 0 ELSE Max(before)
  IN  IF k # 0 THEN [content EXCEPT ![k].rows = Append(@, row)]
      ELSE SubSeq(content, 1, insert_after)
           \o <<Card(show_name, format_date(change.date_str), <<row>>)>>
           \o SubSeq(content, insert_after + 1, Len(content))

\* step 11: for c in changes: content = write_match_to_weekly(...)
RECURSIVE WriteChanges(_, _, _)
WriteChanges(content, changes, methods) ==
  IF changes = <<>> THEN content
  ELSE write_match_to_weekly(
         WriteChanges(content, SubSeq(changes, 1, Len(changes) - 1), methods),
         changes[Len(changes)], "Wrestling", methods[Len(changes)])

\* main of champ.py up to the write; the runs that return early write nothing
ChampMain ==
  /\ pc = "parse_vacancy_comments"
  /\ DOMAIN ret = {}
  /\ \E ws_input \in WindowStarts,
        ppv_history \in {parse_ppv_title_history(html.details, "wwf", "heavyweight")},
        all_names \in {get_all_wrestler_names(html.details) \cup get_all_wrestler_names(html.weekly)} :
       LET window_start == champ_parse_date(ws_input)
           before == {i \in DOMAIN ppv_history : ppv_history[i].date <= window_start}
       IN  \E holder \in (IF before = {} THEN all_names ELSE {ppv_history[Max(before)].champion}) :
             LET later == {i \in DOMAIN ppv_history :
                             ppv_history[i].date > window_start /\ ppv_history[i].champion # holder}
             IN  \E next_ppv \in {IF later = {} THEN None ELSE ppv_history[Min(later)].date} :
                   \E chain \in {c \in SeqsUpTo(all_names \X ChangeDates, MaxChain) \ {<<>>} :
                                    ChainAccepted(c, window_start, next_ppv)} :
                     \E user \in {ChainChanges(chain, holder)} :
                       LET current_holder == user[Len(user)].winner
                           after_date == user[Len(user)].date
                           conflict == next_ppv # None /\ current_holder # holder
                       IN  /\ conflict => after_date + 1 <= next_ppv - 1
                           /\ \E corr \in (IF conflict
                                           THEN CorrectiveDates(after_date + 1, next_ppv - 1, user)
                                           ELSE {None}) :
                                 \E changes \in {champ_sort(
                                       IF conflict
                                       THEN Append(user, [winner |-> holder, loser |-> current_holder,
                                                          date |-> champ_parse_date(corr),
                                                          date_str |-> corr, auto |-> TRUE])
                                       ELSE user)} :
                                   \E methods \in [DOMAIN changes -> {"Pinfall", "Submission"}] :
                                      /\ html' = [html EXCEPT !.weekly =
                                                    WriteChanges(html.weekly, changes, methods)]
                                      /\ ret' = [holder |-> holder, manual |-> before = {},
                                                 window_start |-> window_start, next_ppv |-> next_ppv,
                                                 changes |-> changes, ppv_history |-> ppv_history]
  /\ UNCHANGED <<events, wrestlers, championships, vacancies, pc, pos, run, firstRun,
                 wiki, ppv_wrestlers, cache, year, men_woty, women_woty,
                 yearly_men, yearly_women, hof_classes, already_inducted>>

InitChamp ==
  /\ html \in [comments : {<<>>}, details : ChampPages, weekly : {<<>>}]
  /\ wiki = <<>>
  /\ P4PStart

NextChamp ==
  \/ ChampMain
  \/ ParseVacancyComments
  \/ P4PParseRow
  \/ P4PSortEvents
  \/ ReprocessClear
  \/ ReprocessMatch
  \/ ProcessVacancies
  \/ CalculateDays

SpecChamp == InitChamp /\ [][NextChamp]_vars

\* the champion of the line before the next match of the replay
EnteringChampion == IF Reigns(WWFHeavy) = <<>> THEN "" ELSE LastReign(WWFHeavy).champion

\* the champion the PPV history has before a date
PPVChampionBefore(d) ==
  LET earlier == {i \in DOMAIN ret.ppv_history : ret.ppv_history[i].date < d}
  IN  IF earlier = {} THEN "" ELSE ret.ppv_history[Max(earlier)].champion

\* the weekly cards, on the page or already ingested
WeeklyDates ==
  {html.weekly[k].date : k \in DOMAIN html.weekly}
  \cup {events[e].date : e \in {i \in DOMAIN events : events[i].name = "Live TV"}}

(***************************************************************************)
(* C22. After champ.py has written a chain of weekly title changes, with   *)
(* its corrective match when the last holder of the chain is not the       *)
(* holder at the window start: in the replay of the PPV and weekly events  *)
(* together, the champion who enters a PPV title match of the line dated   *)
(* after the window start is the champion the PPV history has before that  *)
(* match; every match written is dated after the window start and before   *)
(* the next PPV title change; and the corrective match is dated after      *)
(* every change of the chain.                                              *)
(***************************************************************************)
C22_PPVChampionsKept ==
  ("changes" \in DOMAIN ret /\ ~ret.manual) =>
     /\ (/\ ReplayStep
         /\ CurrentMatch.event # "Live TV"
         /\ "wwf" \in Range(TitleOrgs[CurrentMatch.notes])
         /\ TitleWeight[CurrentMatch.notes][CurrentMatch.weight_class] = "heavyweight"
         /\ CurrentMatch.winner # ""
         /\ parse_date(CurrentMatch.date) > ret.window_start) =>
            EnteringChampion = PPVChampionBefore(parse_date(CurrentMatch.date))
     /\ \A d \in WeeklyDates :
           /\ parse_date(d) > ret.window_start
           /\ ret.next_ppv # None => parse_date(d) < ret.next_ppv
     /\ \A i, j \in DOMAIN ret.changes :
           (ret.changes[i].auto /\ ~ret.changes[j].auto) => ret.changes[j].date < ret.changes[i].date

====
